---- MODULE Spec2Model ----
(***************************************************************************)
(* Lead scoring service (backend/app/services/scoring.py) and the code     *)
(* that calls it.                                                          *)
(*                                                                         *)
(* Representation.                                                         *)
(*  - A Python str is a sequence of one-character strings, so that lower() *)
(*    and the substring test `kw in s` are computed, not assumed.          *)
(*  - A Python value is a tagged record: None, str, number, bool, list.    *)
(*    A dict is a function whose DOMAIN is the set of keys present, so a   *)
(*    missing key and a key holding None are different inputs.             *)
(*  - Numbers (inputs and factor scores) are held in thousandths: 50.0 is  *)
(*    50000 and 74.83 is 74830.  Weights are held in hundredths (0.30 is   *)
(*    30), so a weighted sum is in units of 1e-5.  round(x, 2) is computed *)
(*    on these exact decimals.                                             *)
(*  - A call either returns a value or raises; both are results.           *)
(***************************************************************************)
EXTENDS Integers, Sequences, FiniteSets, TLC

VARIABLES
  WEIGHTS,    \* ScoringService.WEIGHTS, the class-level dict (one object for all callers)
  lead_data,  \* the dict object a caller passes to calculate_score
  given,      \* the content lead_data had when the caller built it
  result,     \* what the latest calculate_score call gave its caller
  last,       \* which record the latest call was made on: "none", "lead_data", "other"
  first,      \* the first result returned for lead_data, by value
  history,    \* how far the calls so far got through: lead_data, another record, lead_data
  db,         \* the database: the rows of the leads and contacts tables
  served      \* the latest request an endpoint served: operation, arguments, status

vars == <<WEIGHTS, lead_data, given, result, last, first, history, db, served>>

----------------------------------------------------------------------------
(* Python values *)

NoneV == [t |-> "None"]
Str(s) == [t |-> "str", s |-> s]
Num(n) == [t |-> "num", n |-> n]
Bool(b) == [t |-> "bool", b |-> b]
List(l) == [t |-> "list", l |-> l]

\* Thousandths of one unit: P(50) is 50.0
P(x) == x * 1000

\* bool(v)
Truthy(v) ==
  CASE v.t = "None" -> FALSE
    [] v.t = "str"  -> Len(v.s) > 0
    [] v.t = "num"  -> v.n # 0
    [] v.t = "bool" -> v.b
    [] v.t = "list" -> Len(v.l) > 0

\* d.get(k)
Get(d, k) == IF k \in DOMAIN d THEN d[k] ELSE NoneV

\* d.get(k, default)
GetD(d, k, default) == IF k \in DOMAIN d THEN d[k] ELSE default

\* a or b
Or(a, b) == IF Truthy(a) THEN a ELSE b

Min(a, b) == IF a < b THEN a ELSE b
Max(a, b) == IF a > b THEN a ELSE b

UpperToLower ==
  ("A" :> "a") @@ ("B" :> "b") @@ ("C" :> "c") @@ ("D" :> "d") @@ ("E" :> "e") @@ ("F" :> "f") @@ ("G" :> "g") @@ ("H" :> "h") @@ ("I" :> "i") @@ ("J" :> "j") @@ ("K" :> "k") @@ ("L" :> "l") @@ ("M" :> "m") @@ ("N" :> "n") @@ ("O" :> "o") @@ ("P" :> "p") @@ ("Q" :> "q") @@ ("R" :> "r") @@ ("S" :> "s") @@ ("T" :> "t") @@ ("U" :> "u") @@ ("V" :> "v") @@ ("W" :> "w") @@ ("X" :> "x") @@ ("Y" :> "y") @@ ("Z" :> "z")

\* str.lower()
Lower(s) == [i \in 1..Len(s) |-> IF s[i] \in DOMAIN UpperToLower THEN UpperToLower[s[i]] ELSE s[i]]

\* sub in s, for two str
Contains(sub, s) ==
  \E i \in 1..(Len(s) - Len(sub) + 1) :
    \A j \in 1..Len(sub) : s[i + j - 1] = sub[j]

\* any(kw in s for kw in kws)
AnyIn(kws, s) == \E k \in 1..Len(kws) : Contains(kws[k], s)

\* sum(1 for kw in kws if kw in s)
RECURSIVE CountIn(_, _)
CountIn(kws, s) ==
  IF kws = <<>> THEN 0
  ELSE (IF Contains(Head(kws), s) THEN 1 ELSE 0) + CountIn(Tail(kws), s)

----------------------------------------------------------------------------
(* The constant tables of ScoringService *)

FactorNames ==
  <<"ai_adoption", "company_growth", "engagement_potential",
    "decision_maker_access", "geographic_fit", "timing_signals">>

Factors == {FactorNames[i] : i \in 1..Len(FactorNames)}

\* variant: ai_adoption weighted 0.25
WEIGHTS_TABLE_quarter ==
  [f \in Factors |->
     CASE f = "ai_adoption"           -> 25
       [] f = "company_growth"        -> 20
       [] f = "engagement_potential"  -> 20
       [] f = "decision_maker_access" -> 15
       [] f = "geographic_fit"        -> 10
       [] f = "timing_signals"        -> 5]

\* The WEIGHTS literal, in hundredths
WEIGHTS_TABLE ==
  [f \in Factors |->
     CASE f = "ai_adoption"           -> 30
       [] f = "company_growth"        -> 20
       [] f = "engagement_potential"  -> 20
       [] f = "decision_maker_access" -> 15
       [] f = "geographic_fit"        -> 10
       [] f = "timing_signals"        -> 5]

AI_KEYWORDS ==
  << <<"a","i">>,
     <<"a","r","t","i","f","i","c","i","a","l"," ","i","n","t","e","l","l","i","g","e","n","c","e">>,
     <<"m","a","c","h","i","n","e"," ","l","e","a","r","n","i","n","g">>,
     <<"m","l">>,
     <<"d","e","e","p"," ","l","e","a","r","n","i","n","g">>,
     <<"n","e","u","r","a","l"," ","n","e","t","w","o","r","k">>,
     <<"n","l","p">>,
     <<"n","a","t","u","r","a","l"," ","l","a","n","g","u","a","g","e">>,
     <<"c","o","m","p","u","t","e","r"," ","v","i","s","i","o","n">>,
     <<"l","l","m">>,
     <<"l","a","r","g","e"," ","l","a","n","g","u","a","g","e"," ","m","o","d","e","l">>,
     <<"g","p","t">>,
     <<"g","e","n","e","r","a","t","i","v","e"," ","a","i">>,
     <<"g","e","n","a","i">>,
     <<"t","r","a","n","s","f","o","r","m","e","r","s">>,
     <<"p","y","t","o","r","c","h">>,
     <<"t","e","n","s","o","r","f","l","o","w">>,
     <<"o","p","e","n","a","i">>,
     <<"a","n","t","h","r","o","p","i","c">>,
     <<"d","a","t","a"," ","s","c","i","e","n","c","e">>,
     <<"m","l","o","p","s">> >>

AI_INDUSTRIES ==
  << <<"a","i">>,
     <<"m","a","c","h","i","n","e"," ","l","e","a","r","n","i","n","g">>,
     <<"a","r","t","i","f","i","c","i","a","l"," ","i","n","t","e","l","l","i","g","e","n","c","e">> >>

TARGET_LOCATIONS ==
  << <<"u","n","i","t","e","d"," ","s","t","a","t","e","s">>,
     <<"u","s","a">>,
     <<"u","s">>,
     <<"c","a","n","a","d","a">>,
     <<"u","n","i","t","e","d"," ","k","i","n","g","d","o","m">>,
     <<"u","k">>,
     <<"g","e","r","m","a","n","y">>,
     <<"f","r","a","n","c","e">>,
     <<"n","e","t","h","e","r","l","a","n","d","s">>,
     <<"s","w","e","d","e","n">>,
     <<"s","w","i","t","z","e","r","l","a","n","d">> >>

\* variant: the seed stage scored 100
FUNDING_SCORES_seed100 ==
  << [stage |-> <<"s","e","e","d">>, score |-> 100],
     [stage |-> <<"s","e","r","i","e","s"," ","a">>, score |-> 80],
     [stage |-> <<"s","e","r","i","e","s"," ","b">>, score |-> 90],
     [stage |-> <<"s","e","r","i","e","s"," ","c">>, score |-> 95],
     [stage |-> <<"s","e","r","i","e","s"," ","d">>, score |-> 90],
     [stage |-> <<"s","e","r","i","e","s"," ","e">>, score |-> 85],
     [stage |-> <<"i","p","o">>, score |-> 70],
     [stage |-> <<"a","c","q","u","i","r","e","d">>, score |-> 50],
     [stage |-> <<"b","o","o","t","s","t","r","a","p","p","e","d">>, score |-> 65] >>

FUNDING_SCORES ==
  << [stage |-> <<"s","e","e","d">>, score |-> 60],
     [stage |-> <<"s","e","r","i","e","s"," ","a">>, score |-> 80],
     [stage |-> <<"s","e","r","i","e","s"," ","b">>, score |-> 90],
     [stage |-> <<"s","e","r","i","e","s"," ","c">>, score |-> 95],
     [stage |-> <<"s","e","r","i","e","s"," ","d">>, score |-> 90],
     [stage |-> <<"s","e","r","i","e","s"," ","e">>, score |-> 85],
     [stage |-> <<"i","p","o">>, score |-> 70],
     [stage |-> <<"a","c","q","u","i","r","e","d">>, score |-> 50],
     [stage |-> <<"b","o","o","t","s","t","r","a","p","p","e","d">>, score |-> 65] >>

tech_hubs ==
  << <<"s","a","n"," ","f","r","a","n","c","i","s","c","o">>,
     <<"n","e","w"," ","y","o","r","k">>,
     <<"s","e","a","t","t","l","e">>,
     <<"b","o","s","t","o","n">>,
     <<"a","u","s","t","i","n">>,
     <<"d","e","n","v","e","r">>,
     <<"t","o","r","o","n","t","o">>,
     <<"l","o","n","d","o","n">> >>

SENIOR_TITLES ==
  << <<"c","t","o">>,
     <<"c","e","o">>,
     <<"c","o","o">>,
     <<"v","p">>,
     <<"d","i","r","e","c","t","o","r">>,
     <<"h","e","a","d">> >>

MID_TITLES ==
  << <<"m","a","n","a","g","e","r">>,
     <<"l","e","a","d">>,
     <<"s","e","n","i","o","r">> >>

----------------------------------------------------------------------------
(* Outcomes of a call *)

Ret(v) == [kind |-> "returned", v |-> v]
Raise(e) == [kind |-> "raised", exc |-> e]
NoResult == [kind |-> "none"]

\* round(x, 2) on an exact decimal held in units of 1/(100*m): the nearest
\* hundredth, a tie going to the even one; the result is in hundredths
RoundHalfEven(x, m) ==
  LET q == x \div m
      r == x % m
  IN  IF 2 * r < m THEN q
      ELSE IF 2 * r > m THEN q + 1
      ELSE IF q % 2 = 0 THEN q ELSE q + 1

\* round(v, 2) of a value in thousandths, in thousandths
Round2(v) == RoundHalfEven(v, 10) * 10

\* round(total, 2) of a weighted sum in units of 1e-5, in thousandths
Round2Total(u) == RoundHalfEven(u, 1000) * 10

\* the element of a one-element set; { F(v) : v \in {x} } is F of the value of
\* x, as an assignment evaluates its right side once and then names the value
TheOne(S) == CHOOSE r \in S : TRUE

----------------------------------------------------------------------------
(* The six factor functions *)

\* sum(1 for tech in tech_stack if any(kw in tech.lower() for kw in AI_KEYWORDS))
RECURSIVE ai_tech_count(_)
ai_tech_count(techs) ==
  IF techs = <<>> THEN 0
  ELSE (IF AnyIn(AI_KEYWORDS, Lower(Head(techs))) THEN 1 ELSE 0)
       + ai_tech_count(Tail(techs))

\* variant: no cap on the tech_stack bonus
_score_ai_adoption_uncapped_tech(data) ==
  LET got == GetD(data, "tech_stack", List(<<>>))
      tech_stack == IF got.t = "str" THEN List(<<got.s>>) ELSE got
      description == Lower(Or(Get(data, "description"), Str(<<>>)).s)
      ai_mentions == CountIn(AI_KEYWORDS, description)
      industry == Lower(Or(Get(data, "industry"), Str(<<>>)).s)
  IN  IF tech_stack.t # "list"
      THEN Raise("TypeError")
      ELSE Ret(Min(P(50)
                   + P(ai_tech_count(tech_stack.l) * 10)
                   + Min(P(ai_mentions * 5), P(20))
                   + (IF AnyIn(AI_INDUSTRIES, industry) THEN P(20) ELSE 0),
                   P(100)))

\* variant: the clamp at 90
_score_ai_adoption_clamp90(data) ==
  LET got == GetD(data, "tech_stack", List(<<>>))
      tech_stack == IF got.t = "str" THEN List(<<got.s>>) ELSE got
      description == Lower(Or(Get(data, "description"), Str(<<>>)).s)
      ai_mentions == CountIn(AI_KEYWORDS, description)
      industry == Lower(Or(Get(data, "industry"), Str(<<>>)).s)
  IN  IF tech_stack.t # "list"
      THEN Raise("TypeError")
      ELSE Ret(Min(P(50)
                   + Min(P(ai_tech_count(tech_stack.l) * 10), P(30))
                   + Min(P(ai_mentions * 5), P(20))
                   + (IF AnyIn(AI_INDUSTRIES, industry) THEN P(20) ELSE 0),
                   P(90)))

_score_ai_adoption(data) ==
  LET got == GetD(data, "tech_stack", List(<<>>))
      tech_stack == IF got.t = "str" THEN List(<<got.s>>) ELSE got
      description == Lower(Or(Get(data, "description"), Str(<<>>)).s)
      ai_mentions == CountIn(AI_KEYWORDS, description)
      industry == Lower(Or(Get(data, "industry"), Str(<<>>)).s)
  IN  IF tech_stack.t # "list"
      THEN Raise("TypeError")   \* iterating over None
      ELSE Ret(Min(P(50)
                   + Min(P(ai_tech_count(tech_stack.l) * 10), P(30))
                   + Min(P(ai_mentions * 5), P(20))
                   + (IF AnyIn(AI_INDUSTRIES, industry) THEN P(20) ELSE 0),
                   P(100)))

\* variant: no break, the best of the matching entries
RECURSIVE stage_loop_best(_, _, _)
stage_loop_best(score, table, funding_stage) ==
  IF table = <<>> THEN score
  ELSE IF Contains(Head(table).stage, funding_stage)
       THEN stage_loop_best(Max(score, P(Head(table).score)), Tail(table), funding_stage)
       ELSE stage_loop_best(score, Tail(table), funding_stage)

\* for stage, stage_score in FUNDING_SCORES.items(): first match, then break
RECURSIVE stage_loop(_, _, _)
stage_loop(score, table, funding_stage) ==
  IF table = <<>> THEN score
  ELSE IF Contains(Head(table).stage, funding_stage)
       THEN Max(score, P(Head(table).score))
       ELSE stage_loop(score, Tail(table), funding_stage)

\* variant: the tier boundaries of funding_amount belong to the higher tier
_score_company_growth_inclusive(data) ==
  LET funding_stage == Lower(Or(Get(data, "funding_stage"), Str(<<>>)).s)
      staged == stage_loop(P(50), FUNDING_SCORES, funding_stage)
      funding_amount == Or(GetD(data, "funding_amount", Num(0)), Num(0)).n
      funded == IF funding_amount >= P(100) THEN P(15)
                ELSE IF funding_amount >= P(50) THEN P(10)
                ELSE IF funding_amount >= P(10) THEN P(5)
                ELSE 0
      employee_count == Or(GetD(data, "employee_count", Num(0)), Num(0)).n
      staffed == IF P(50) <= employee_count /\ employee_count <= P(500) THEN P(15)
                 ELSE IF P(20) <= employee_count /\ employee_count <= P(1000) THEN P(10)
                 ELSE IF employee_count > P(1000) THEN P(5)
                 ELSE 0
  IN  Ret(Min(staged + funded + staffed, P(100)))

_score_company_growth(data) ==
  LET funding_stage == Lower(Or(Get(data, "funding_stage"), Str(<<>>)).s)
      staged == stage_loop(P(50), FUNDING_SCORES, funding_stage)
      funding_amount == Or(GetD(data, "funding_amount", Num(0)), Num(0)).n
      funded == IF funding_amount > P(100) THEN P(15)
                ELSE IF funding_amount > P(50) THEN P(10)
                ELSE IF funding_amount > P(10) THEN P(5)
                ELSE 0
      employee_count == Or(GetD(data, "employee_count", Num(0)), Num(0)).n
      staffed == IF P(50) <= employee_count /\ employee_count <= P(500) THEN P(15)
                 ELSE IF P(20) <= employee_count /\ employee_count <= P(1000) THEN P(10)
                 ELSE IF employee_count > P(1000) THEN P(5)
                 ELSE 0
  IN  Ret(Min(staged + funded + staffed, P(100)))

\* social_activity_score / 10 is exact in thousandths for a score with at
\* most two decimals, which is what the inputs hold
\* variant: an engagement score that starts at 40
_score_engagement_base40(data) ==
  LET social == IF Truthy(Get(data, "social_activity_score"))
                THEN Min(data["social_activity_score"].n \div 10, P(10))
                ELSE 0
  IN  Ret(Min(P(40)
              + (IF Truthy(Get(data, "linkedin_url")) THEN P(15) ELSE 0)
              + (IF Truthy(Get(data, "company_domain")) THEN P(10) ELSE 0)
              + (IF Truthy(Get(data, "recent_news")) THEN P(15) ELSE 0)
              + social,
              P(100)))

_score_engagement(data) ==
  LET social == IF Truthy(Get(data, "social_activity_score"))
                THEN Min(data["social_activity_score"].n \div 10, P(10))
                ELSE 0
  IN  Ret(Min(P(50)
              + (IF Truthy(Get(data, "linkedin_url")) THEN P(15) ELSE 0)
              + (IF Truthy(Get(data, "company_domain")) THEN P(10) ELSE 0)
              + (IF Truthy(Get(data, "recent_news")) THEN P(15) ELSE 0)
              + social,
              P(100)))

\* variant: an address of confidence below 70 costs 5 points
contact_points_penalty(contact) ==
  LET email_confidence == GetD(contact, "email_confidence", Num(0))
      title == Lower(Or(Get(contact, "job_title"), Str(<<>>)).s)
  IN  IF email_confidence.t # "num"
      THEN Raise("TypeError")
      ELSE Ret((IF email_confidence.n >= P(90) THEN P(20)
                ELSE IF email_confidence.n >= P(70) THEN P(15)
                ELSE 0 - P(5))
               + (IF AnyIn(SENIOR_TITLES, title) THEN P(20)
                  ELSE IF AnyIn(MID_TITLES, title) THEN P(10)
                  ELSE 0)
               + (IF Truthy(Get(contact, "linkedin_url")) THEN P(5) ELSE 0))

\* one pass of the loop body over a contact: the points added, or a raise
contact_points(contact) ==
  LET email_confidence == GetD(contact, "email_confidence", Num(0))
      title == Lower(Or(Get(contact, "job_title"), Str(<<>>)).s)
  IN  IF email_confidence.t # "num"
      THEN Raise("TypeError")   \* None >= 90
      ELSE Ret((IF email_confidence.n >= P(90) THEN P(20)
                ELSE IF email_confidence.n >= P(70) THEN P(15)
                ELSE IF email_confidence.n >= P(50) THEN P(10)
                ELSE 0)
               + (IF AnyIn(SENIOR_TITLES, title) THEN P(20)
                  ELSE IF AnyIn(MID_TITLES, title) THEN P(10)
                  ELSE 0)
               + (IF Truthy(Get(contact, "linkedin_url")) THEN P(5) ELSE 0))

\* for contact in contacts: score += ...
RECURSIVE contacts_loop(_, _)
contacts_loop(score, contacts) ==
  IF contacts = <<>> THEN Ret(score)
  ELSE LET pts == contact_points(Head(contacts))
       IN  IF pts.kind = "raised" THEN pts
           ELSE contacts_loop(score + pts.v, Tail(contacts))

\* variant: no early return for an empty contact list, and the base of the
\* other factors
_score_decision_maker_base50(data) ==
  LET contacts == GetD(data, "contacts", List(<<>>))
  IN  IF ~Truthy(contacts) THEN Ret(P(50))
      ELSE LET summed == contacts_loop(P(50), contacts.l)
           IN  IF summed.kind = "raised" THEN summed
               ELSE Ret(Min(summed.v, P(100)))

\* variant: the best contact counts, not the sum of all
RECURSIVE best_contact(_, _)
best_contact(best, contacts) ==
  IF contacts = <<>> THEN Ret(best)
  ELSE LET pts == contact_points(Head(contacts))
       IN  IF pts.kind = "raised" THEN pts
           ELSE best_contact(Max(best, pts.v), Tail(contacts))

_score_decision_maker_best(data) ==
  LET contacts == GetD(data, "contacts", List(<<>>))
  IN  IF ~Truthy(contacts) THEN Ret(P(40))
      ELSE LET best == best_contact(0, contacts.l)
           IN  IF best.kind = "raised" THEN best
               ELSE Ret(Min(P(40) + best.v, P(100)))

_score_decision_maker(data) ==
  LET contacts == GetD(data, "contacts", List(<<>>))
  IN  IF ~Truthy(contacts) THEN Ret(P(40))
      ELSE LET summed == contacts_loop(P(40), contacts.l)
           IN  IF summed.kind = "raised" THEN summed
               ELSE Ret(Min(summed.v, P(100)))

\* variant: the hub bonus added first, then overwritten by the target score
_score_geographic_hub_first(data) ==
  LET location == Lower(Or(Get(data, "location"), Str(<<>>)).s)
      hub == IF AnyIn(tech_hubs, location) THEN P(60) ELSE P(50)
  IN  Ret(IF AnyIn(TARGET_LOCATIONS, location) THEN P(90) ELSE hub)

_score_geographic(data) ==
  LET location == Lower(Or(Get(data, "location"), Str(<<>>)).s)
      targeted == IF AnyIn(TARGET_LOCATIONS, location) THEN P(90) ELSE P(50)
      hub == IF AnyIn(tech_hubs, location) THEN P(10) ELSE 0
  IN  Ret(Min(targeted + hub, P(100)))

\* variant: a timing score that starts at 40
_score_timing_base40(data) ==
  Ret(Min(P(40)
          + (IF Truthy(Get(data, "recent_funding")) THEN P(25) ELSE 0)
          + (IF Truthy(Get(data, "hiring_ai_roles")) THEN P(25) ELSE 0)
          + (IF Truthy(Get(data, "recent_press")) THEN P(15) ELSE 0)
          + (IF Truthy(Get(data, "data_fresh")) THEN P(10) ELSE 0),
          P(100)))

\* variant: a score that depends on the calls made before
_score_timing_counting(data) ==
  Ret(Min(P(50)
          + (IF history # "none" THEN P(10) ELSE 0)
          + (IF Truthy(Get(data, "recent_funding")) THEN P(25) ELSE 0)
          + (IF Truthy(Get(data, "hiring_ai_roles")) THEN P(25) ELSE 0)
          + (IF Truthy(Get(data, "recent_press")) THEN P(15) ELSE 0)
          + (IF Truthy(Get(data, "data_fresh")) THEN P(10) ELSE 0),
          P(100)))

_score_timing(data) ==
  Ret(Min(P(50)
          + (IF Truthy(Get(data, "recent_funding")) THEN P(25) ELSE 0)
          + (IF Truthy(Get(data, "hiring_ai_roles")) THEN P(25) ELSE 0)
          + (IF Truthy(Get(data, "recent_press")) THEN P(15) ELSE 0)
          + (IF Truthy(Get(data, "data_fresh")) THEN P(10) ELSE 0),
          P(100)))

----------------------------------------------------------------------------
(* calculate_score *)

\* variant: the ai-adoption prompt at scores of 50 and below
_get_recommendations_at_most_50(scores, tier) ==
  (IF scores["decision_maker_access"] < P(60)
   THEN <<"Find and verify decision maker contacts">> ELSE <<>>)
  \o (IF scores["ai_adoption"] <= P(50)
      THEN <<"Research company's AI/tech initiatives">> ELSE <<>>)
  \o (IF scores["timing_signals"] < P(50)
      THEN <<"Monitor for funding/hiring announcements">> ELSE <<>>)
  \o (IF tier = "hot" THEN <<"Prioritize immediate outreach">>
      ELSE IF tier = "warm" THEN <<"Add to nurture campaign">>
      ELSE IF tier = "cold" THEN <<"Continue monitoring for timing signals">>
      ELSE <<"Archive and review quarterly">>)

\* variant: the tier message appended first
_get_recommendations_tier_first(scores, tier) ==
  (IF tier = "hot" THEN <<"Prioritize immediate outreach">>
   ELSE IF tier = "warm" THEN <<"Add to nurture campaign">>
   ELSE IF tier = "cold" THEN <<"Continue monitoring for timing signals">>
   ELSE <<"Archive and review quarterly">>)
  \o (IF scores["decision_maker_access"] < P(60)
      THEN <<"Find and verify decision maker contacts">> ELSE <<>>)
  \o (IF scores["ai_adoption"] < P(50)
      THEN <<"Research company's AI/tech initiatives">> ELSE <<>>)
  \o (IF scores["timing_signals"] < P(50)
      THEN <<"Monitor for funding/hiring announcements">> ELSE <<>>)

_get_recommendations(scores, tier) ==
  (IF scores["decision_maker_access"] < P(60)
   THEN <<"Find and verify decision maker contacts">> ELSE <<>>)
  \o (IF scores["ai_adoption"] < P(50)
      THEN <<"Research company's AI/tech initiatives">> ELSE <<>>)
  \o (IF scores["timing_signals"] < P(50)
      THEN <<"Monitor for funding/hiring announcements">> ELSE <<>>)
  \o (IF tier = "hot" THEN <<"Prioritize immediate outreach">>
      ELSE IF tier = "warm" THEN <<"Add to nurture campaign">>
      ELSE IF tier = "cold" THEN <<"Continue monitoring for timing signals">>
      ELSE <<"Archive and review quarterly">>)

\* the dict literal of lines 70-77: the six calls, in this order
factor_calls(data) ==
  [f \in Factors |->
     CASE f = "ai_adoption"           -> _score_ai_adoption(data)
       [] f = "company_growth"        -> _score_company_growth(data)
       [] f = "engagement_potential"  -> _score_engagement(data)
       [] f = "decision_maker_access" -> _score_decision_maker(data)
       [] f = "geographic_fit"        -> _score_geographic(data)
       [] f = "timing_signals"        -> _score_timing(data)]

\* sum(scores[factor] * self.WEIGHTS[factor] for factor in scores), in 1e-5
RECURSIVE weighted_sum(_, _, _)
weighted_sum(scores, weights, names) ==
  IF names = <<>> THEN 0
  ELSE scores[Head(names)] * weights[Head(names)]
       + weighted_sum(scores, weights, Tail(names))

\* lines 86-93, on the unrounded total in 1e-5
tier_of(total_score) ==
  IF total_score >= P(85) * 100 THEN "hot"
  ELSE IF total_score >= P(65) * 100 THEN "warm"
  ELSE IF total_score >= P(40) * 100 THEN "cold"
  ELSE "low_priority"

\* "weights": self.WEIGHTS puts the class-level dict itself in the result
WeightsRef == [ref |-> "ScoringService.WEIGHTS"]

\* variant: the breakdown holds the scores as they are, not rounded
score_result_unrounded_breakdown(scores) ==
  LET total_score == weighted_sum(scores, WEIGHTS, FactorNames)
      tier == tier_of(total_score)
  IN  [kind |-> "returned",
       total_score |-> Round2Total(total_score),
       tier |-> tier,
       breakdown |-> scores,
       weights |-> WeightsRef,
       recommendations |-> _get_recommendations(scores, tier)]

\* variant: the breakdown leaves out the factors whose score is 50
score_result_without_base(scores) ==
  LET total_score == weighted_sum(scores, WEIGHTS, FactorNames)
      tier == tier_of(total_score)
  IN  [kind |-> "returned",
       total_score |-> Round2Total(total_score),
       tier |-> tier,
       breakdown |-> [k \in {x \in DOMAIN scores : scores[x] # P(50)} |-> Round2(scores[k])],
       weights |-> WeightsRef,
       recommendations |-> _get_recommendations(scores, tier)]

\* lines 79-101: the total, the tier and the result dict, from the scores dict
score_result(scores) ==
  LET total_score == weighted_sum(scores, WEIGHTS, FactorNames)
      tier == tier_of(total_score)
  IN  [kind |-> "returned",
       total_score |-> Round2Total(total_score),
       tier |-> tier,
       breakdown |-> [k \in DOMAIN scores |-> Round2(scores[k])],
       weights |-> WeightsRef,
       recommendations |-> _get_recommendations(scores, tier)]

\* an exception in any factor function leaves calculate_score at once
scored(calls) ==
  IF \E f \in Factors : calls[f].kind = "raised"
  THEN Raise("TypeError")
  ELSE TheOne({ score_result(scores) : scores \in {[f \in Factors |-> calls[f].v]} })

calculate_score(data) == TheOne({ scored(calls) : calls \in {factor_calls(data)} })

\* calculate_score and the functions it calls only read data (data.get) and
\* rebind local names (tech_stack = [tech_stack]); the dict is left as it was
lead_data_after_call(data) == data

----------------------------------------------------------------------------
(* The records callers pass *)

MaxContacts == 2

S_X == <<"X">>  \* "X"
S_PyTorch == <<"P","y","T","o","r","c","h">>  \* "PyTorch"
S_Python == <<"P","y","t","h","o","n">>  \* "Python"
S_TensorFlow == <<"T","e","n","s","o","r","F","l","o","w">>  \* "TensorFlow"
S_OpenAI == <<"O","p","e","n","A","I">>  \* "OpenAI"
S_MLOps == <<"M","L","O","p","s">>  \* "MLOps"
S_nlp_mlops == <<"n","l","p"," ","m","l","o","p","s">>  \* "nlp mlops"
S_Retail == <<"R","e","t","a","i","l">>  \* "Retail"
S_AI == <<"A","I">>  \* "AI"
S_SeriesC == <<"S","e","r","i","e","s"," ","C">>  \* "Series C"
S_url == <<"u",".","i","o">>  \* "u.io"
S_Berlin == <<"B","e","r","l","i","n",","," ","G","e","r","m","a","n","y">>  \* "Berlin, Germany"
S_CTO == <<"C","T","O">>  \* "CTO"
S_Other == <<"A","c","m","e">>  \* "Acme"
Empty == [k \in {} |-> NoneV]

\* tech_stack, description, industry
AiInputs ==
  { Empty,
    [tech_stack |-> NoneV],
    [tech_stack |-> Str(S_PyTorch), description |-> NoneV, industry |-> NoneV],
    [tech_stack |-> List(<<S_Python>>), description |-> Str(S_nlp_mlops),
     industry |-> Str(S_Retail)],
    [tech_stack |-> List(<<S_TensorFlow, S_PyTorch, S_OpenAI, S_MLOps>>),
     industry |-> Str(S_AI)] }

\* funding_stage, funding_amount (millions), employee_count
GrowthInputs ==
  { Empty,
    [funding_stage |-> NoneV, funding_amount |-> NoneV, employee_count |-> NoneV],
    [funding_stage |-> Str(S_SeriesC), funding_amount |-> Num(P(150)),
     employee_count |-> Num(P(200))] }

\* linkedin_url, company_domain, recent_news, social_activity_score
EngagementInputs ==
  { Empty,
    [linkedin_url |-> NoneV, company_domain |-> NoneV,
     recent_news |-> Bool(FALSE), social_activity_score |-> Num(0)],
    [social_activity_score |-> Num(P(-600))],
    [linkedin_url |-> Str(S_url), recent_news |-> Bool(TRUE),
     social_activity_score |-> Num(74830)],
    [linkedin_url |-> Str(S_url), company_domain |-> Str(S_url),
     recent_news |-> Bool(TRUE), social_activity_score |-> Num(P(2000))] }

\* one contact as score_lead and the enrichment service build it
ContactInputs ==
  { [email_confidence |-> Num(P(95)), job_title |-> Str(S_CTO),
     linkedin_url |-> Str(S_url)],
    [email_confidence |-> NoneV],
    [job_title |-> NoneV, linkedin_url |-> NoneV] }

ContactLists ==
  UNION { [1..n -> ContactInputs] : n \in 0..MaxContacts }

ContactsInputs ==
  { Empty, [contacts |-> NoneV] } \cup { [contacts |-> List(l)] : l \in ContactLists }

GeoInputs ==
  { Empty,
    [location |-> NoneV],
    [location |-> Str(S_Berlin)] }

\* recent_funding, hiring_ai_roles, recent_press, data_fresh
TimingInputs ==
  { Empty,
    [recent_funding |-> Bool(TRUE), hiring_ai_roles |-> Bool(TRUE),
     recent_press |-> Bool(FALSE), data_fresh |-> Bool(TRUE)] }

LeadRecords ==
  { [company_name |-> Str(S_X)] @@ a @@ g @@ e @@ c @@ l @@ t :
      a \in AiInputs, g \in GrowthInputs, e \in EngagementInputs,
      c \in ContactsInputs, l \in GeoInputs, t \in TimingInputs }

\* another caller's record
OtherRecords ==
  { [company_name |-> Str(S_Other), tech_stack |-> List(<<S_OpenAI>>),
     employee_count |-> Num(P(30)), recent_press |-> Bool(TRUE)] }

----------------------------------------------------------------------------
(* The state machine *)

\* no rows in either table
EmptyDb == [leads |-> [i \in {} |-> NoneV], contacts |-> [i \in {} |-> NoneV]]

\* no request served yet
NoCall == [op |-> "none"]

\* a result as its caller reads it now: "weights" is the dict it refers to
Value(r) ==
  IF r.kind = "returned" /\ r.weights = WeightsRef
  THEN [r EXCEPT !.weights = WEIGHTS]
  ELSE r

Init ==
  /\ WEIGHTS = WEIGHTS_TABLE
  /\ lead_data \in LeadRecords
  /\ given = lead_data
  /\ result = NoResult
  /\ last = "none"
  /\ first = NoResult
  /\ history = "none"
  /\ db = EmptyDb
  /\ served = NoCall

\* scorer.calculate_score(lead_data)
Calculate ==
  /\ result' = calculate_score(lead_data)
  /\ lead_data' = lead_data_after_call(lead_data)
  /\ last' = "lead_data"
  /\ first' = IF first = NoResult THEN Value(result') ELSE first
  /\ history' = CASE history = "none" -> "lead"
                  [] history = "lead-other" -> "lead-other-lead"
                  [] OTHER -> history
  /\ UNCHANGED <<WEIGHTS, given, db, served>>

\* the same service scores another caller's record
CalculateOther ==
  \E other \in OtherRecords :
    /\ result' = calculate_score(other)
    /\ last' = "other"
    /\ history' = IF history = "lead" THEN "lead-other" ELSE history
    /\ UNCHANGED <<WEIGHTS, lead_data, given, first, db, served>>

Next == Calculate \/ CalculateOther

Spec == Init /\ [][Next]_vars

----------------------------------------------------------------------------
(* Callers that write to the result they were given *)

\* the factors and the value a caller writes
WrittenFactors == {"ai_adoption", "timing_signals"}
WrittenValues == {0}

\* the records of the callers that write
CallerRecords ==
  { [company_name |-> Str(S_X)] @@ a @@ g @@ e :
      a \in AiInputs, g \in GrowthInputs, e \in EngagementInputs }

InitCallers ==
  /\ Init
  /\ lead_data \in CallerRecords

\* result["weights"][f] = v: the dict written is the one "weights" refers to
CallerWritesWeights ==
  /\ result.kind = "returned"
  /\ \E f \in WrittenFactors, v \in WrittenValues :
       IF result.weights = WeightsRef
       THEN /\ WEIGHTS' = [WEIGHTS EXCEPT ![f] = v]
            /\ UNCHANGED result
       ELSE /\ result' = [result EXCEPT !.weights[f] = v]
            /\ UNCHANGED WEIGHTS
  /\ UNCHANGED <<lead_data, given, last, first, history, db, served>>

\* result["breakdown"][f] = v: the breakdown dict is built by each call (line 98)
CallerWritesBreakdown ==
  /\ result.kind = "returned"
  /\ \E f \in WrittenFactors, v \in WrittenValues :
       result' = [result EXCEPT !.breakdown[f] = v]
  /\ UNCHANGED <<WEIGHTS, lead_data, given, last, first, history, db, served>>

NextCallers ==
  Calculate \/ CalculateOther \/ CallerWritesWeights \/ CallerWritesBreakdown

SpecCallers == InitCallers /\ [][NextCallers]_vars

----------------------------------------------------------------------------
(* Records that exercise one factor at a time *)

S_genai_mlops == <<"g","e","n","a","i"," ","m","l","o","p","s">>  \* "genai mlops"
S_genai_mlops_nlp == <<"g","e","n","a","i"," ","m","l","o","p","s"," ","n","l","p">>  \* "genai mlops nlp"
S_ml_nlp_platform == <<"m","a","c","h","i","n","e"," ","l","e","a","r","n","i","n","g"," ","n","l","p"," ","p","l","a","t","f","o","r","m">>  \* "machine learning nlp platform"
S_ArtificialIntelligence == <<"A","r","t","i","f","i","c","i","a","l"," ","I","n","t","e","l","l","i","g","e","n","c","e">>  \* "Artificial Intelligence"
S_Finance == <<"F","i","n","a","n","c","e">>  \* "Finance"

\* tech_stack: absent, a list or a single string
TechStacks ==
  { Empty,
    [tech_stack |-> List(<<>>)],
    [tech_stack |-> List(<<S_Python>>)],
    [tech_stack |-> Str(S_Python)],
    [tech_stack |-> Str(S_PyTorch)],
    [tech_stack |-> List(<<S_PyTorch>>)],
    [tech_stack |-> List(<<S_Python, S_OpenAI>>)],
    [tech_stack |-> List(<<S_TensorFlow, S_PyTorch>>)],
    [tech_stack |-> List(<<S_TensorFlow, S_PyTorch, S_OpenAI>>)],
    [tech_stack |-> List(<<S_TensorFlow, S_PyTorch, S_OpenAI, S_MLOps>>)] }

Descriptions ==
  { Empty,
    [description |-> NoneV],
    [description |-> Str(S_ml_nlp_platform)],
    [description |-> Str(S_genai_mlops)],
    [description |-> Str(S_genai_mlops_nlp)] }

Industries ==
  { Empty,
    [industry |-> NoneV],
    [industry |-> Str(S_Finance)],
    [industry |-> Str(S_Retail)],
    [industry |-> Str(S_ArtificialIntelligence)] }

AiRecords ==
  { [company_name |-> Str(S_X)] @@ t @@ d @@ i :
      t \in TechStacks, d \in Descriptions, i \in Industries }

S_SeriesB == <<"S","e","r","i","e","s"," ","B">>  \* "Series B"
S_Seed == <<"S","e","e","d">>  \* "Seed"
S_Seed_SeriesC == <<"S","e","e","d"," ","e","x","t","e","n","s","i","o","n"," ","b","e","f","o","r","e"," ","S","e","r","i","e","s"," ","C">>  \* "Seed extension before Series C"
S_IPO_SeriesA == <<"I","P","O"," ","a","f","t","e","r"," ","S","e","r","i","e","s"," ","A">>  \* "IPO after Series A"
S_Acquired == <<"A","c","q","u","i","r","e","d">>  \* "Acquired"

FundingStages ==
  { Empty,
    [funding_stage |-> NoneV],
    [funding_stage |-> Str(S_Seed)],
    [funding_stage |-> Str(S_SeriesB)],
    [funding_stage |-> Str(S_SeriesC)],
    [funding_stage |-> Str(S_Seed_SeriesC)],
    [funding_stage |-> Str(S_IPO_SeriesA)],
    [funding_stage |-> Str(S_Acquired)] }

\* funding_amount: absent, None, and each tier boundary with the value just above
FundingAmounts ==
  { Empty, [funding_amount |-> NoneV] }
  \cup { [funding_amount |-> Num(n)] :
           n \in {P(10), P(10) + 1, P(50), P(50) + 1, P(100), P(100) + 1} }

\* employee_count: absent, None, and both sides of each band boundary
EmployeeCounts ==
  { Empty, [employee_count |-> NoneV] }
  \cup { [employee_count |-> Num(P(n))] :
           n \in {5, 19, 20, 49, 50, 200, 500, 501, 1000, 1001} }

GrowthRecords ==
  { [company_name |-> Str(S_X)] @@ f @@ a @@ e :
      f \in FundingStages, a \in FundingAmounts, e \in EmployeeCounts }

S_Manager == <<"E","n","g","i","n","e","e","r","i","n","g"," ","M","a","n","a","g","e","r">>  \* "Engineering Manager"

\* contacts at and just below the confidence thresholds 90, 70 and 50; the
\* first title holds a senior and a mid-level word ("Senior Director"), the
\* second a mid-level word only ("Team Lead")
ContactBoundaryKinds ==
  { [email_confidence |-> Num(P(90)), job_title |-> Str(<<"S","e","n","i","o","r"," ","D","i","r","e","c","t","o","r">>)],
    [email_confidence |-> Num(P(90) - 1)],
    [email_confidence |-> Num(P(70) - 1), job_title |-> Str(<<"T","e","a","m"," ","L","e","a","d">>)],
    [email_confidence |-> Num(P(50) - 1), linkedin_url |-> Str(S_url)] }

\* contacts of more kinds: a mid-level title, and a bare address of low confidence
ContactKinds ==
  ContactInputs
  \cup { [email_confidence |-> Num(P(70)), job_title |-> Str(S_Manager)],
         [email_confidence |-> Num(P(50))] }
  \cup ContactBoundaryKinds

ContactRecords ==
  { [company_name |-> Str(S_X)] @@ c :
      c \in { Empty, [contacts |-> NoneV] }
            \cup { [contacts |-> List(l)] :
                     l \in UNION { [1..n -> ContactKinds] : n \in 0..MaxContacts } } }

\* the records scored one factor at a time
\* locations in no target country and no hub, in a target country only, in a
\* hub only, in both, and in two hubs; "Austin" holds the target entry "us"
Locations ==
  { Empty, [location |-> NoneV] }
  \cup { [location |-> Str(l)] :
           l \in { <<>>,
                   <<"B","e","r","l","i","n",","," ","G","e","r","m","a","n","y">>,
                   <<"B","o","s","t","o","n">>,
                   <<"S","a","n"," ","F","r","a","n","c","i","s","c","o",","," ","U","S","A">>,
                   <<"U","n","k","n","o","w","n"," ","L","o","c","a","t","i","o","n">>,
                   <<"A","u","s","t","i","n">>,
                   <<"L","o","n","d","o","n",","," ","U","K">>,
                   <<"T","o","r","o","n","t","o"," ","a","n","d"," ","D","e","n","v","e","r">> } }

GeoRecords == { [company_name |-> Str(S_X)] @@ l : l \in Locations }

\* a timing flag: absent, None, True or False
TimingFlag(key) ==
  { Empty } \cup { [k \in {key} |-> v] : v \in { NoneV, Bool(TRUE), Bool(FALSE) } }

TimingRecords ==
  { [company_name |-> Str(S_X)] @@ f @@ h @@ p @@ d :
      f \in TimingFlag("recent_funding"), h \in TimingFlag("hiring_ai_roles"),
      p \in TimingFlag("recent_press"), d \in TimingFlag("data_fresh") }

\* social_activity_score below zero (-85 and -600), and the other numeric
\* fields below zero
EngagementRecords ==
  { [company_name |-> Str(S_X)] @@ e :
      e \in EngagementInputs
            \cup { [social_activity_score |-> Num(P(-85))],
                   [social_activity_score |-> Num(P(-600)), linkedin_url |-> Str(S_url),
                    recent_news |-> Bool(TRUE)],
                   [funding_amount |-> Num(P(-5)), employee_count |-> Num(P(-3)),
                    contacts |-> List(<<[email_confidence |-> Num(P(-10))]>>)] } }

FactorRecords ==
  AiRecords \cup GrowthRecords \cup ContactRecords \cup GeoRecords \cup TimingRecords
  \cup EngagementRecords

InitFactors ==
  /\ WEIGHTS = WEIGHTS_TABLE
  /\ lead_data \in FactorRecords
  /\ given = lead_data
  /\ result = NoResult
  /\ last = "none"
  /\ first = NoResult
  /\ history = "none"
  /\ db = EmptyDb
  /\ served = NoCall

SpecFactors == InitFactors /\ [][Next]_vars

----------------------------------------------------------------------------
(* The enrichment service *)

\* lists given to _deduplicate_contacts hold up to MaxDedup contacts
MaxDedup == 3

S_email_a == <<"a","@","u",".","i","o">>  \* "a@u.io"
S_email_b == <<"b","@","u",".","i","o">>  \* "b@u.io"

\* one contact of _enrich_from_apollo, from a person of search_people
apollo_contact(person) ==
  [first_name |-> Get(person, "first_name"),
   last_name |-> Get(person, "last_name"),
   email |-> Get(person, "email"),
   job_title |-> Get(person, "title"),
   linkedin_url |-> Get(person, "linkedin_url"),
   email_confidence |-> IF Truthy(Get(person, "email")) THEN Num(P(80)) ELSE Num(0),
   source |-> Str(<<"a","p","o","l","l","o">>)]

\* the company dict and the contacts (the first five people) of Apollo
_enrich_from_apollo(org_data, people) ==
  [company |->
     IF DOMAIN org_data # {} /\ "error" \notin DOMAIN org_data
     THEN [company_name |-> Get(org_data, "name"),
           industry |-> Get(org_data, "industry"),
           employee_count |-> Get(org_data, "estimated_num_employees"),
           location |-> Get(org_data, "primary_address_locality"),
           description |-> Get(org_data, "short_description"),
           tech_stack |-> GetD(org_data, "technologies", List(<<>>)),
           linkedin_url |-> Get(org_data, "linkedin_url"),
           funding_stage |-> Get(org_data, "latest_funding_stage"),
           funding_amount |-> Get(org_data, "total_funding")]
     ELSE Empty,
   contacts |-> [i \in 1..Min(5, Len(people)) |-> apollo_contact(people[i])]]

\* the contact that enrich_lead makes of one email of Hunter's domain search
hunter_contact(email_data) ==
  [email |-> Get(email_data, "email"),
   first_name |-> Get(email_data, "first_name"),
   last_name |-> Get(email_data, "last_name"),
   job_title |-> Get(email_data, "position"),
   email_confidence |-> GetD(email_data, "confidence", Num(0)),
   source |-> Str(<<"h","u","n","t","e","r">>)]

\* the loop of _deduplicate_contacts; contact.get("email", "").lower() raises
\* when the email held is not a string
RECURSIVE deduplicate_loop(_, _, _)
deduplicate_loop(seen_emails, unique_contacts, contacts) ==
  IF contacts = <<>> THEN Ret(unique_contacts)
  ELSE LET contact == Head(contacts)
           held == GetD(contact, "email", Str(<<>>))
       IN  IF held.t # "str" THEN Raise("AttributeError")
           ELSE IF Lower(held.s) # <<>> /\ Lower(held.s) \notin seen_emails
           THEN deduplicate_loop(seen_emails \cup {Lower(held.s)},
                                 Append(unique_contacts, contact), Tail(contacts))
           ELSE IF Lower(held.s) = <<>>
           THEN deduplicate_loop(seen_emails, Append(unique_contacts, contact),
                                 Tail(contacts))
           ELSE deduplicate_loop(seen_emails, unique_contacts, Tail(contacts))

_deduplicate_contacts(contacts) == deduplicate_loop({}, <<>>, contacts)

\* what calculate_score and _deduplicate_contacts leave of enrich_lead's result
enriched(base, score_data, unique_contacts) ==
  IF score_data.kind = "raised" THEN score_data
  ELSE IF unique_contacts.kind = "raised" THEN unique_contacts
  ELSE [base EXCEPT !.score = score_data, !.contacts = unique_contacts.v]

\* EnrichmentService.enrich_lead with both sources asked for. An answer is
\* "skipped" (the client is not configured), "raised" (an exception, caught
\* and listed in errors) or "data"; domain, emails and enriched_at are left out
EnrichmentService_enrich_lead(domain, company_name, apollo, hunter) ==
  LET apollo_data == IF apollo.kind = "data"
                     THEN _enrich_from_apollo(apollo.org, apollo.people)
                     ELSE [company |-> Empty, contacts |-> <<>>]
      emails == IF hunter.kind = "data" THEN hunter.emails ELSE <<>>
      base == [kind |-> "returned",
               company_name |-> company_name,
               enrichment_sources |->
                 (IF apollo.kind = "data" THEN <<"apollo">> ELSE <<>>)
                 \o (IF hunter.kind = "data" THEN <<"hunter">> ELSE <<>>),
               company_data |-> apollo_data.company,
               contacts |-> apollo_data.contacts
                            \o [i \in 1..Len(emails) |-> hunter_contact(emails[i])],
               errors |->
                 (IF apollo.kind = "raised" THEN <<"apollo">> ELSE <<>>)
                 \o (IF hunter.kind = "raised" THEN <<"hunter">> ELSE <<>>),
               score |-> NoResult]
  IN  enriched(base,
               calculate_score([company_domain |-> domain,
                                contacts |-> List(base.contacts)]
                               @@ base.company_data),
               _deduplicate_contacts(base.contacts))

\* the people of search_people: a CTO with an email and a profile, a person
\* without an email, a person whose email is written in capitals
People ==
  { [first_name |-> Str(<<"A","d","a">>), email |-> Str(S_email_a),
     title |-> Str(S_CTO), linkedin_url |-> Str(S_url)],
    [first_name |-> Str(<<"B","o">>), linkedin_url |-> Str(S_url)],
    [email |-> Str(<<"A","@","U",".","I","O">>), title |-> Str(S_Manager)] }

\* the organization of enrich_organization: an error, nothing, a company
Organizations ==
  { [error |-> Str(<<"4","0","4">>)],
    Empty,
    [name |-> Str(S_Other), industry |-> Str(S_AI),
     estimated_num_employees |-> Num(P(200)),
     primary_address_locality |-> Str(S_Berlin),
     short_description |-> Str(S_nlp_mlops),
     technologies |-> List(<<S_PyTorch>>),
     latest_funding_stage |-> Str(S_SeriesB)] }

\* the emails of Hunter's domain search
HunterEmails ==
  { [email |-> Str(S_email_a), confidence |-> Num(P(95)), position |-> Str(S_CTO),
     first_name |-> Str(<<"A","d","a">>), last_name |-> NoneV],
    [email |-> Str(S_email_b), confidence |-> Num(P(60)), position |-> NoneV,
     first_name |-> NoneV, last_name |-> NoneV] }

ApolloAnswers ==
  { [kind |-> "skipped"], [kind |-> "raised"] }
  \cup { [kind |-> "data", org |-> o, people |-> l] :
           o \in Organizations,
           l \in UNION { [1..n -> People] : n \in 0..MaxContacts } }

HunterAnswers ==
  { [kind |-> "skipped"], [kind |-> "raised"] }
  \cup { [kind |-> "data", emails |-> l] :
           l \in UNION { [1..n -> HunterEmails] : n \in 0..MaxContacts } }

\* the contacts given to _deduplicate_contacts: emails that differ in case
\* only, another email, and contacts without email: the key missing, the
\* empty string, None
DedupContacts ==
  { [email |-> Str(S_email_a), source |-> Str(<<"a","p","o","l","l","o">>)],
    [email |-> Str(<<"A","@","U",".","I","O">>), source |-> Str(<<"h","u","n","t","e","r">>)],
    [email |-> Str(S_email_b)],
    [linkedin_url |-> Str(S_url)],
    [email |-> Str(<<>>)],
    [email |-> NoneV, linkedin_url |-> Str(S_url)] }

\* the arguments of a call: the answers of the two clients, or a contact list
EnrichInputs ==
  { [apollo |-> a, hunter |-> h] : a \in ApolloAnswers, h \in HunterAnswers }
  \cup { [contacts |-> l] :
           l \in UNION { [1..n -> DedupContacts] : n \in 0..MaxDedup } }

InitEnrich ==
  /\ WEIGHTS = WEIGHTS_TABLE
  /\ lead_data \in EnrichInputs
  /\ given = lead_data
  /\ result = NoResult
  /\ last = "none"
  /\ first = NoResult
  /\ history = "none"
  /\ db = EmptyDb
  /\ served = NoCall

EnrichLeadService ==
  /\ "apollo" \in DOMAIN lead_data
  /\ result' = EnrichmentService_enrich_lead(Str(S_url), Str(S_X),
                                             lead_data.apollo, lead_data.hunter)
  /\ last' = "enrich_lead"
  /\ UNCHANGED <<WEIGHTS, lead_data, given, first, history, db, served>>

DeduplicateContacts ==
  /\ "contacts" \in DOMAIN lead_data
  /\ result' = _deduplicate_contacts(lead_data.contacts)
  /\ last' = "_deduplicate_contacts"
  /\ UNCHANGED <<WEIGHTS, lead_data, given, first, history, db, served>>

NextEnrich == EnrichLeadService \/ DeduplicateContacts

SpecEnrich == InitEnrich /\ [][NextEnrich]_vars

----------------------------------------------------------------------------
(* The lead and contact endpoints *)

\* rows the tables may hold
MaxLeads == 1
MaxRows == 2

\* the variables of the scoring service, which no endpoint writes
scorerVars == <<WEIGHTS, lead_data, given, result, last, first, history>>

\* the columns of a lead that the scorer or a handler reads
LeadColumns ==
  { "company_name", "company_domain", "industry", "employee_count", "funding_stage",
    "funding_amount", "location", "description", "tech_stack", "linkedin_url" }

\* lead_in.model_dump() of a LeadCreate holding only company_name
NameOnly ==
  [c \in LeadColumns |->
     CASE c = "company_name" -> Str(S_X)
       [] c = "tech_stack"   -> List(<<>>)
       [] OTHER              -> NoneV]

\* lead_in.model_dump() of the LeadCreate bodies posted
LeadIns ==
  { NameOnly,
    [NameOnly EXCEPT !["tech_stack"] = NoneV],
    [company_name |-> Str(S_Other), company_domain |-> Str(S_url),
     industry |-> Str(S_Retail), employee_count |-> Num(P(200)),
     funding_stage |-> Str(S_SeriesC), funding_amount |-> Num(P(150)),
     location |-> Str(S_Berlin), description |-> Str(S_nlp_mlops),
     tech_stack |-> List(<<S_OpenAI>>), linkedin_url |-> Str(S_url)] }

\* the LeadCreate bodies posted to a table of several leads: without a
\* domain, with "u.io", with the empty string, and with every field filled
DomainLeadIns ==
  { NameOnly,
    [NameOnly EXCEPT !["company_domain"] = Str(S_url)],
    [NameOnly EXCEPT !["company_domain"] = Str(<<>>)],
    [company_name |-> Str(S_Other), company_domain |-> Str(S_url),
     industry |-> Str(S_Retail), employee_count |-> Num(P(200)),
     funding_stage |-> Str(S_SeriesC), funding_amount |-> Num(P(150)),
     location |-> Str(S_Berlin), description |-> Str(S_nlp_mlops),
     tech_stack |-> List(<<S_OpenAI>>), linkedin_url |-> Str(S_url)] }

\* what the two clients answer to the enrich endpoint: a company with a
\* contact that both report, no data at all, a person without email
EndpointAnswers ==
  { [apollo |-> [kind |-> "data",
                 org |-> [name |-> Str(S_X), industry |-> Str(S_AI),
                          estimated_num_employees |-> Num(P(50)),
                          primary_address_locality |-> Str(S_X),
                          short_description |-> Str(S_AI),
                          technologies |-> List(<<S_PyTorch>>),
                          linkedin_url |-> Str(S_X),
                          latest_funding_stage |-> Str(S_SeriesB),
                          total_funding |-> Num(P(10))],
                 people |-> <<[email |-> Str(S_email_a), title |-> Str(S_CTO)]>>],
     hunter |-> [kind |-> "data",
                 emails |-> <<[email |-> Str(S_email_a), confidence |-> Num(P(95))]>>]],
    [apollo |-> [kind |-> "raised"], hunter |-> [kind |-> "skipped"]],
    [apollo |-> [kind |-> "data", org |-> Empty,
                 people |-> <<[linkedin_url |-> Str(S_url)]>>],
     hunter |-> [kind |-> "skipped"]] }

\* the LeadUpdate bodies that set company_domain: to "u.io", "v.io" and null
DomainUpdates ==
  { [company_domain |-> Str(S_url)],
    [company_domain |-> Str(<<"v",".","i","o">>)],
    [company_domain |-> NoneV] }

\* lead_in.model_dump(exclude_unset=True) of the LeadUpdate bodies put
LeadUpdates ==
  { [tech_stack |-> NoneV] }

\* contact_in.model_dump() of the ContactCreate bodies posted, without lead_id:
\* an unnamed contact without email, and "Ada Lovelace" with an email
ContactIns ==
  { [email |-> NoneV, first_name |-> NoneV, last_name |-> NoneV],
    [email |-> Str(S_email_a), first_name |-> Str(<<"A","d","a">>),
     last_name |-> Str(<<"L","o","v","e","l","a","c","e">>)] }

\* what the email finder answers: an error, no email, or an email with a score
FindResults ==
  { [error |-> TRUE, email |-> NoneV, confidence |-> Num(0)],
    [error |-> FALSE, email |-> NoneV, confidence |-> Num(0)],
    [error |-> FALSE, email |-> Str(S_email_b), confidence |-> Num(P(92))] }

\* the query parameters of the PUT /contacts requests: none, an email, a job_title
ContactUpdates ==
  { [email |-> NoneV, job_title |-> NoneV],
    [email |-> Str(S_email_b), job_title |-> NoneV],
    [email |-> NoneV, job_title |-> Str(S_CTO)] }

\* what the verification service answers: an error, or a status with a score
VerifyResults ==
  { [error |-> TRUE, is_valid |-> FALSE, score |-> Num(0)],
    [error |-> FALSE, is_valid |-> TRUE, score |-> Num(P(95))],
    [error |-> FALSE, is_valid |-> FALSE, score |-> Num(0)] }

\* the request served: the operation, its status code, the row it names, and
\* for update_contact the email argument and the email_verified it found
Served(op, status, id) ==
  [op |-> op, status |-> status, id |-> id, email |-> NoneV, before |-> ""]

\* the primary key given to a new row (default=uuid.uuid4): a key that no row
\* of the table holds; the key of a deleted row may be given again
new_id(table) ==
  CHOOSE i \in 1..(Cardinality(DOMAIN table) + 1) :
    i \notin DOMAIN table /\ \A j \in 1..(i - 1) : j \in DOMAIN table

\* [ {...} for c in lead.contacts ], in the order of the rows
lead_contacts(lead_id) ==
  LET ids == SelectSeq([i \in 1..MaxRows |-> i],
                       LAMBDA i : i \in DOMAIN db.contacts
                                  /\ db.contacts[i].lead_id = lead_id)
  IN  [k \in 1..Len(ids) |->
         [email |-> db.contacts[ids[k]].email,
          email_confidence |-> db.contacts[ids[k]].email_confidence,
          job_title |-> db.contacts[ids[k]].job_title,
          linkedin_url |-> db.contacts[ids[k]].linkedin_url]]

\* the lead_data dict of score_lead
score_lead_data(lead, contacts) ==
  [company_name |-> lead["company_name"],
   company_domain |-> lead["company_domain"],
   industry |-> lead["industry"],
   employee_count |-> lead["employee_count"],
   funding_stage |-> lead["funding_stage"],
   funding_amount |-> lead["funding_amount"],
   location |-> lead["location"],
   description |-> lead["description"],
   tech_stack |-> Or(lead["tech_stack"], List(<<>>)),
   linkedin_url |-> lead["linkedin_url"],
   contacts |-> List(contacts)]

\* company_domain = Column(String(255), unique=True): the rows of a leads
\* table hold different company_domain values, NULL apart
unique_company_domain(leads) ==
  \A i, j \in DOMAIN leads :
    (i # j /\ leads[i]["company_domain"] # NoneV)
    => leads[i]["company_domain"] # leads[j]["company_domain"]

\* POST /leads
create_lead(lead_in) ==
  LET existing == { i \in DOMAIN db.leads :
                      db.leads[i]["company_domain"] = lead_in["company_domain"] }
      lead_id == new_id(db.leads)
  IN  IF Truthy(lead_in["company_domain"]) /\ existing # {}
      THEN /\ served' = Served("create_lead", 400, 0)
           /\ UNCHANGED db
      ELSE \E score_data \in {calculate_score(lead_in)} :
                IF score_data.kind = "raised"
                THEN /\ served' = Served("create_lead", 500, 0)
                     /\ UNCHANGED db
                ELSE LET leads == (lead_id :> ([lead_score |-> Num(score_data.total_score),
                                                ai_adoption_score |->
                                                  Num(GetD(score_data.breakdown,
                                                           "ai_adoption", 0)),
                                                status |-> Str(<<"n","e","w">>)]
                                               @@ lead_in))
                                  @@ db.leads
                     IN  IF ~unique_company_domain(leads)
                         THEN /\ served' = Served("create_lead", 500, 0)
                              /\ UNCHANGED db
                         ELSE /\ db' = [db EXCEPT !.leads = leads]
                              /\ served' = Served("create_lead", 201, lead_id)

\* PUT /leads/{lead_id}; a commit that the unique index refuses raises, the
\* request is answered 500 and the session is closed without the change
update_lead(lead_id, update_data) ==
  IF lead_id \notin DOMAIN db.leads
  THEN /\ served' = Served("update_lead", 404, lead_id)
       /\ UNCHANGED db
  ELSE LET leads == [db.leads EXCEPT ![lead_id] = update_data @@ db.leads[lead_id]]
       IN  IF ~unique_company_domain(leads)
           THEN /\ served' = Served("update_lead", 500, lead_id)
                /\ UNCHANGED db
           ELSE /\ db' = [db EXCEPT !.leads = leads]
                /\ served' = Served("update_lead", 200, lead_id)

\* variant: the contacts left out of the record scored
score_lead_without_contacts(lead_id) ==
  IF lead_id \notin DOMAIN db.leads
  THEN /\ served' = Served("score_lead", 404, lead_id)
       /\ UNCHANGED db
  ELSE \E scored_lead \in
            {calculate_score(score_lead_data(db.leads[lead_id], <<>>))} :
         IF scored_lead.kind = "raised"
         THEN /\ served' = Served("score_lead", 500, lead_id)
              /\ UNCHANGED db
         ELSE /\ db' = [db EXCEPT
                          !.leads[lead_id]["lead_score"] = Num(scored_lead.total_score),
                          !.leads[lead_id]["ai_adoption_score"] =
                            Num(GetD(scored_lead.breakdown, "ai_adoption", 0))]
              /\ served' = Served("score_lead", 200, lead_id)

\* POST /leads/{lead_id}/score
score_lead(lead_id) ==
  IF lead_id \notin DOMAIN db.leads
  THEN /\ served' = Served("score_lead", 404, lead_id)
       /\ UNCHANGED db
  ELSE \E scored_lead \in
            {calculate_score(score_lead_data(db.leads[lead_id], lead_contacts(lead_id)))} :
         IF scored_lead.kind = "raised"
         THEN /\ served' = Served("score_lead", 500, lead_id)
              /\ UNCHANGED db
         ELSE /\ db' = [db EXCEPT
                          !.leads[lead_id]["lead_score"] = Num(scored_lead.total_score),
                          !.leads[lead_id]["ai_adoption_score"] =
                            Num(GetD(scored_lead.breakdown, "ai_adoption", 0))]
              /\ served' = Served("score_lead", 200, lead_id)

\* POST /contacts
create_contact(lead_id, contact_in) ==
  LET existing == { i \in DOMAIN db.contacts :
                      /\ db.contacts[i].lead_id = lead_id
                      /\ db.contacts[i].email = contact_in.email }
      contact_id == new_id(db.contacts)
  IN  IF lead_id \notin DOMAIN db.leads
      THEN /\ served' = Served("create_contact", 404, 0)
           /\ UNCHANGED db
      ELSE IF Truthy(contact_in.email) /\ existing # {}
      THEN /\ served' = Served("create_contact", 400, 0)
           /\ UNCHANGED db
      ELSE /\ db' = [db EXCEPT !.contacts =
                       (contact_id :> ([lead_id |-> lead_id,
                                        email_confidence |-> Num(0),
                                        email_verified |-> "unverified",
                                        email_source |-> NoneV,
                                        job_title |-> NoneV, linkedin_url |-> NoneV]
                                       @@ contact_in))
                       @@ db.contacts]
           /\ served' = Served("create_contact", 201, contact_id)

\* variant: a new email keeps the verification state of the old one
update_contact_keeps_state(contact_id, email, job_title) ==
  IF contact_id \notin DOMAIN db.contacts
  THEN /\ served' = Served("update_contact", 404, contact_id)
       /\ UNCHANGED db
  ELSE LET contact == db.contacts[contact_id]
           with_email == IF email # NoneV
                         THEN [contact EXCEPT !.email = email]
                         ELSE contact
           with_title == IF job_title # NoneV
                         THEN [with_email EXCEPT !.job_title = job_title]
                         ELSE with_email
       IN  /\ db' = [db EXCEPT !.contacts[contact_id] = with_title]
           /\ served' = [Served("update_contact", 200, contact_id)
                           EXCEPT !.email = email, !.before = contact.email_verified]

\* PUT /contacts/{contact_id}
update_contact(contact_id, email, job_title) ==
  IF contact_id \notin DOMAIN db.contacts
  THEN /\ served' = Served("update_contact", 404, contact_id)
       /\ UNCHANGED db
  ELSE LET contact == db.contacts[contact_id]
           with_email == IF email # NoneV
                         THEN [contact EXCEPT !.email = email,
                                              !.email_verified = "unverified"]
                         ELSE contact
           with_title == IF job_title # NoneV
                         THEN [with_email EXCEPT !.job_title = job_title]
                         ELSE with_email
       IN  /\ db' = [db EXCEPT !.contacts[contact_id] = with_title]
           /\ served' = [Served("update_contact", 200, contact_id)
                           EXCEPT !.email = email, !.before = contact.email_verified]

\* POST /contacts/{contact_id}/verify-email
verify_contact_email(contact_id, verification) ==
  IF contact_id \notin DOMAIN db.contacts
  THEN /\ served' = Served("verify_contact_email", 404, contact_id)
       /\ UNCHANGED db
  ELSE IF ~Truthy(db.contacts[contact_id].email)
  THEN /\ served' = Served("verify_contact_email", 400, contact_id)
       /\ UNCHANGED db
  ELSE IF verification.error
  THEN /\ served' = Served("verify_contact_email", 500, contact_id)
       /\ UNCHANGED db
  ELSE /\ db' = [db EXCEPT
                   !.contacts[contact_id].email_verified =
                     IF verification.is_valid THEN "valid" ELSE "invalid",
                   !.contacts[contact_id].email_confidence = verification.score]
       /\ served' = Served("verify_contact_email", 200, contact_id)

\* POST /contacts/{contact_id}/find-email
find_contact_email(contact_id, found) ==
  IF contact_id \notin DOMAIN db.contacts
  THEN /\ served' = Served("find_contact_email", 404, contact_id)
       /\ UNCHANGED db
  ELSE LET contact == db.contacts[contact_id]
       IN  IF ~Truthy(contact.first_name) \/ ~Truthy(contact.last_name)
           THEN /\ served' = Served("find_contact_email", 400, contact_id)
                /\ UNCHANGED db
           ELSE IF \/ contact.lead_id \notin DOMAIN db.leads
                   \/ ~Truthy(db.leads[contact.lead_id]["company_domain"])
           THEN /\ served' = Served("find_contact_email", 400, contact_id)
                /\ UNCHANGED db
           ELSE IF found.error
           THEN /\ served' = Served("find_contact_email", 500, contact_id)
                /\ UNCHANGED db
           ELSE /\ db' = IF Truthy(found.email)
                         THEN [db EXCEPT
                                 !.contacts[contact_id].email = found.email,
                                 !.contacts[contact_id].email_confidence = found.confidence,
                                 !.contacts[contact_id].email_source =
                                   Str(<<"h","u","n","t","e","r">>)]
                         ELSE db
                /\ served' = [Served("find_contact_email", 200, contact_id)
                                EXCEPT !.email = found.email,
                                       !.before = contact.email_verified]

\* variant: enriched data written over the fields that hold a value
enrich_lead_overwriting(lead_id, answers) ==
  IF lead_id \notin DOMAIN db.leads
  THEN /\ served' = Served("enrich_lead", 404, lead_id)
       /\ UNCHANGED db
  ELSE IF ~Truthy(db.leads[lead_id]["company_domain"])
  THEN /\ served' = Served("enrich_lead", 400, lead_id)
       /\ UNCHANGED db
  ELSE \E enrichment \in
            {EnrichmentService_enrich_lead(db.leads[lead_id]["company_domain"],
                                           db.leads[lead_id]["company_name"],
                                           answers.apollo, answers.hunter)} :
         IF enrichment.kind = "raised"
         THEN /\ served' = Served("enrich_lead", 500, lead_id)
              /\ UNCHANGED db
         ELSE LET lead == db.leads[lead_id]
                  company_data == enrichment.company_data
                  filled == { field \in { "industry", "employee_count", "location",
                                          "description", "funding_stage" } :
                                /\ Truthy(Get(company_data, field))
                                /\ TRUE }
                  with_fields == [c \in DOMAIN lead |->
                                    IF c \in filled THEN company_data[c] ELSE lead[c]]
                  with_tech == IF Truthy(Get(company_data, "tech_stack"))
                               THEN [with_fields EXCEPT
                                       !["tech_stack"] = company_data["tech_stack"]]
                               ELSE with_fields
              IN  /\ db' = [db EXCEPT !.leads[lead_id] =
                              [with_tech EXCEPT
                                 !["lead_score"] = Num(enrichment.score.total_score),
                                 !["ai_adoption_score"] =
                                   Num(GetD(enrichment.score.breakdown, "ai_adoption",
                                            lead["ai_adoption_score"].n))]]
                  /\ served' = Served("enrich_lead", 200, lead_id)

\* POST /leads/{lead_id}/enrich
enrich_lead(lead_id, answers) ==
  IF lead_id \notin DOMAIN db.leads
  THEN /\ served' = Served("enrich_lead", 404, lead_id)
       /\ UNCHANGED db
  ELSE IF ~Truthy(db.leads[lead_id]["company_domain"])
  THEN /\ served' = Served("enrich_lead", 400, lead_id)
       /\ UNCHANGED db
  ELSE \E enrichment \in
            {EnrichmentService_enrich_lead(db.leads[lead_id]["company_domain"],
                                           db.leads[lead_id]["company_name"],
                                           answers.apollo, answers.hunter)} :
         IF enrichment.kind = "raised"
         THEN /\ served' = Served("enrich_lead", 500, lead_id)
              /\ UNCHANGED db
         ELSE LET lead == db.leads[lead_id]
                  company_data == enrichment.company_data
                  filled == { field \in { "industry", "employee_count", "location",
                                          "description", "funding_stage" } :
                                /\ Truthy(Get(company_data, field))
                                /\ ~Truthy(lead[field]) }
                  with_fields == [c \in DOMAIN lead |->
                                    IF c \in filled THEN company_data[c] ELSE lead[c]]
                  with_tech == IF Truthy(Get(company_data, "tech_stack"))
                               THEN [with_fields EXCEPT
                                       !["tech_stack"] = company_data["tech_stack"]]
                               ELSE with_fields
              IN  /\ db' = [db EXCEPT !.leads[lead_id] =
                              [with_tech EXCEPT
                                 !["lead_score"] = Num(enrichment.score.total_score),
                                 !["ai_adoption_score"] =
                                   Num(GetD(enrichment.score.breakdown, "ai_adoption",
                                            lead["ai_adoption_score"].n))]]
                  /\ served' = Served("enrich_lead", 200, lead_id)

\* DELETE /leads/{lead_id}; the contacts of the lead go with it (cascade)
delete_lead(lead_id) ==
  IF lead_id \notin DOMAIN db.leads
  THEN /\ served' = Served("delete_lead", 404, lead_id)
       /\ UNCHANGED db
  ELSE /\ db' = [leads |-> [i \in DOMAIN db.leads \ {lead_id} |-> db.leads[i]],
                 contacts |-> [i \in { c \in DOMAIN db.contacts :
                                          db.contacts[c].lead_id # lead_id }
                                 |-> db.contacts[i]]]
       /\ served' = Served("delete_lead", 204, lead_id)

\* DELETE /contacts/{contact_id}
delete_contact(contact_id) ==
  IF contact_id \notin DOMAIN db.contacts
  THEN /\ served' = Served("delete_contact", 404, contact_id)
       /\ UNCHANGED db
  ELSE /\ db' = [db EXCEPT !.contacts =
                   [i \in DOMAIN db.contacts \ {contact_id} |-> db.contacts[i]]]
       /\ served' = Served("delete_contact", 204, contact_id)

InitApi ==
  /\ WEIGHTS = WEIGHTS_TABLE
  /\ lead_data = [company_name |-> Str(S_X)]
  /\ given = lead_data
  /\ result = NoResult
  /\ last = "none"
  /\ first = NoResult
  /\ history = "none"
  /\ db = EmptyDb
  /\ served = NoCall

CreateLead ==
  /\ \E lead_in \in LeadIns : create_lead(lead_in)
  /\ Cardinality(DOMAIN db'.leads) <= MaxLeads
  /\ UNCHANGED scorerVars

UpdateLead ==
  /\ \E lead_id \in 1..MaxLeads, update_data \in LeadUpdates :
       update_lead(lead_id, update_data)
  /\ UNCHANGED scorerVars

ScoreLead == (\E lead_id \in 1..MaxLeads : score_lead(lead_id)) /\ UNCHANGED scorerVars

CreateContact ==
  /\ \E lead_id \in 1..MaxLeads, contact_in \in ContactIns :
       create_contact(lead_id, contact_in)
  /\ Cardinality(DOMAIN db'.contacts) <= MaxRows
  /\ UNCHANGED scorerVars

UpdateContact ==
  /\ \E contact_id \in 1..MaxRows, args \in ContactUpdates :
       update_contact(contact_id, args.email, args.job_title)
  /\ UNCHANGED scorerVars

VerifyContactEmail ==
  /\ \E contact_id \in 1..MaxRows, verification \in VerifyResults :
       verify_contact_email(contact_id, verification)
  /\ UNCHANGED scorerVars

NextApi ==
  \/ CreateLead
  \/ UpdateLead
  \/ ScoreLead
  \/ CreateContact
  \/ UpdateContact
  \/ VerifyContactEmail

SpecApi == InitApi /\ [][NextApi]_vars

\* the lead endpoints, on a table of up to MaxRows leads
CreateLeadRow ==
  /\ \E lead_in \in DomainLeadIns : create_lead(lead_in)
  /\ Cardinality(DOMAIN db'.leads) <= MaxRows
  /\ UNCHANGED scorerVars

UpdateLeadDomain ==
  /\ \E lead_id \in 1..MaxRows, update_data \in DomainUpdates :
       update_lead(lead_id, update_data)
  /\ UNCHANGED scorerVars

DeleteLead ==
  /\ \E lead_id \in 1..MaxRows : delete_lead(lead_id)
  /\ UNCHANGED scorerVars

EnrichLead ==
  /\ \E lead_id \in 1..MaxRows, answers \in EndpointAnswers :
       enrich_lead(lead_id, answers)
  /\ UNCHANGED scorerVars

NextLeads ==
  \/ CreateLeadRow
  \/ UpdateLeadDomain
  \/ DeleteLead
  \/ EnrichLead

SpecLeads == InitApi /\ [][NextLeads]_vars

FindContactEmail ==
  /\ \E contact_id \in 1..MaxRows, found \in FindResults :
       find_contact_email(contact_id, found)
  /\ UNCHANGED scorerVars

DeleteContact ==
  /\ \E contact_id \in 1..MaxRows : delete_contact(contact_id)
  /\ UNCHANGED scorerVars

\* the contact endpoints, on the contacts of one lead
NextContacts ==
  \/ CreateLead
  \/ CreateContact
  \/ UpdateContact
  \/ VerifyContactEmail
  \/ FindContactEmail
  \/ DeleteContact

SpecContacts == InitApi /\ [][NextContacts]_vars

----------------------------------------------------------------------------
(* Properties *)

\* the latest call was calculate_score(lead_data) and it returned a ScoreResult
Returned == last = "lead_data" /\ result.kind = "returned"

\* the factor scores of a record, before any rounding
FactorScores(data) == [f \in Factors |-> factor_calls(data)[f].v]

\* the tier that the thresholds give for a reported (rounded) total
TierOfReported(total_score) ==
  IF total_score >= P(85) THEN "hot"
  ELSE IF total_score >= P(65) THEN "warm"
  ELSE IF total_score >= P(40) THEN "cold"
  ELSE "low_priority"

\* a record without the keys that hold None, in the record and in its contacts
StripNone(d) == [k \in {x \in DOMAIN d : d[x].t # "None"} |-> d[k]]

WithoutNone(data) ==
  LET top == StripNone(data)
  IN  IF "contacts" \in DOMAIN top
      THEN [top EXCEPT !["contacts"] =
              List([i \in 1..Len(top["contacts"].l) |-> StripNone(top["contacts"].l[i])])]
      ELSE top

OnlyCompanyName == DOMAIN given = {"company_name"}

Range(seq) == {seq[i] : i \in 1..Len(seq)}

\* C1 (as claimed): for every valid record calculate_score returns total_score
\* in [0, 100] and each of the six breakdown values in [0, 100].
C1_ScoresInRange ==
  Returned =>
    /\ 0 <= result.total_score /\ result.total_score <= P(100)
    /\ \A f \in Factors :
         0 <= result.breakdown[f] /\ result.breakdown[f] <= P(100)

\* C2 (as claimed): in every ScoreResult the tier is the one the thresholds
\* 85, 65, 40 give for the reported, 2-decimal total_score.
C2_TierMatchesReportedTotal ==
  result.kind = "returned" => result.tier = TierOfReported(result.total_score)

\* C3 (as claimed): calculate_score never raises; a record with optional fields
\* missing or None gets the ScoreResult of the record without those fields.
C3_NoneIsAbsent ==
  last = "lead_data" =>
    /\ result.kind = "returned"
    /\ result = calculate_score(WithoutNone(given))

\* C4 (as claimed): a record holding only company_name scores 48.5, tier cold,
\* six factors, and its recommendations include the decision-maker prompt, the
\* ai-adoption prompt and the cold-tier message.
C4_OnlyNameIncludesAiPrompt ==
  (OnlyCompanyName /\ last = "lead_data") =>
    /\ result.kind = "returned"
    /\ result.total_score = 48500
    /\ result.tier = "cold"
    /\ DOMAIN result.breakdown = Factors
    /\ { "Find and verify decision maker contacts",
         "Research company's AI/tech initiatives",
         "Continue monitoring for timing signals" } \subseteq Range(result.recommendations)

\* C4 (amended): a record holding only company_name scores 48.5 from the base
\* values 50, 50, 50, 40, 50, 50, tier cold, six factors, and its
\* recommendations are exactly the decision-maker prompt followed by the
\* cold-tier message; the ai-adoption prompt is not among them.
C4_OnlyNameScore ==
  (OnlyCompanyName /\ last = "lead_data") =>
    /\ result.kind = "returned"
    /\ result.total_score = 48500
    /\ result.tier = "cold"
    /\ DOMAIN result.breakdown = Factors
    /\ \A f \in Factors :
         result.breakdown[f] = IF f = "decision_maker_access" THEN P(40) ELSE P(50)
    /\ result.recommendations =
         << "Find and verify decision maker contacts",
            "Continue monitoring for timing signals" >>

\* calculate_score has returned for a record holding only company_name
C4_Witness == OnlyCompanyName /\ Returned

\* the weighted sum of six factor scores with the weights written out, in 1e-5
WeightedByTable(s) ==
  30 * s["ai_adoption"] + 20 * s["company_growth"] + 20 * s["engagement_potential"]
  + 15 * s["decision_maker_access"] + 10 * s["geographic_fit"] + 5 * s["timing_signals"]

\* C5 (as claimed): total_score is the weighted sum of the six factor scores
\* rounded to 2 decimals, and the breakdown values are exactly those factor scores.
C5_BreakdownIsFactorScores ==
  Returned =>
    /\ result.total_score = Round2Total(WeightedByTable(FactorScores(given)))
    /\ \A f \in Factors : result.breakdown[f] = FactorScores(given)[f]

\* C5 (amended): total_score is the weighted sum of the six (unrounded) factor
\* scores rounded to 2 decimals, and each breakdown value is the factor score
\* that entered the sum, itself rounded to 2 decimals.
C5_TotalIsWeightedSum ==
  Returned =>
    /\ result.total_score = Round2Total(WeightedByTable(FactorScores(given)))
    /\ \A f \in Factors : result.breakdown[f] = Round2(FactorScores(given)[f])

\* a returned result one of whose factor scores has more than two decimals
C5_Witness ==
  /\ Returned
  /\ \E f \in Factors : FactorScores(given)[f] % 10 # 0

\* C6: the breakdown of every ScoreResult has exactly the six named keys,
\* however sparse the record.
C6_SixFactors ==
  result.kind = "returned" =>
    DOMAIN result.breakdown =
      { "ai_adoption", "company_growth", "engagement_potential",
        "decision_maker_access", "geographic_fit", "timing_signals" }

\* a result with six factors for the sparsest record
C6_Witness ==
  /\ result.kind = "returned"
  /\ DOMAIN given = {"company_name"}
  /\ Cardinality(DOMAIN result.breakdown) = 6

\* C7: the six weights sum to exactly 1.0 (100 hundredths), and the weights of
\* every ScoreResult is the weight table itself.
C7_WeightsSumToOne ==
  /\ WEIGHTS["ai_adoption"] + WEIGHTS["company_growth"] + WEIGHTS["engagement_potential"]
     + WEIGHTS["decision_maker_access"] + WEIGHTS["geographic_fit"]
     + WEIGHTS["timing_signals"] = 100
  /\ DOMAIN WEIGHTS = Factors
  /\ result.kind = "returned" =>
       /\ result.weights = WeightsRef
       /\ Value(result).weights = WEIGHTS

\* a result handed to another caller, holding the table
C7_Witness == result.kind = "returned" /\ last = "other"

C9_CallersCannotInterfere ==
  [][(Calculate /\ first.kind = "returned") =>
       /\ result'.kind = "returned"
       /\ result'.total_score = first.total_score
       /\ result'.tier = first.tier
       /\ result'.breakdown = first.breakdown
       /\ result'.recommendations = first.recommendations]_vars

\* contacts absent, or an empty list
ZeroContacts(data) ==
  \/ "contacts" \notin DOMAIN data
  \/ data["contacts"] = List(<<>>)

\* C10: for a record with zero contacts (absent or an empty list) the
\* decision_maker_access factor is exactly 40, whatever the other fields of the
\* record are, and 40 is what the breakdown of the result returned reports.
C10_NoContactsIsForty ==
  ZeroContacts(given) =>
    /\ _score_decision_maker(given) = Ret(P(40))
    /\ Returned => result.breakdown["decision_maker_access"] = P(40)

\* an empty contact list in a record whose other fields are filled in
C10_Witness ==
  /\ Returned
  /\ "contacts" \in DOMAIN given
  /\ given["contacts"] = List(<<>>)
  /\ {"tech_stack", "funding_stage", "linkedin_url", "location"} \subseteq DOMAIN given

\* the tech_stack entries of a record: none when the key is absent, one when
\* the value is a single string
TechEntries(data) ==
  IF "tech_stack" \notin DOMAIN data THEN <<>>
  ELSE IF data["tech_stack"].t = "str" THEN <<data["tech_stack"].s>>
  ELSE data["tech_stack"].l

\* the positions of the entries that contain an AI keyword
AiEntries(data) ==
  { i \in 1..Len(TechEntries(data)) :
      \E k \in 1..Len(AI_KEYWORDS) :
        Contains(AI_KEYWORDS[k], Lower(TechEntries(data)[i])) }

NonAiTechStacks == { t \in TechStacks : AiEntries(t) = {} }

\* the record with another tech_stack (or none) and every other field kept
WithTech(data, t) == [k \in DOMAIN data \ {"tech_stack"} |-> data[k]] @@ t

\* C11: a record whose tech_stack has an entry containing an AI keyword has a
\* strictly higher ai_adoption than the same record with any tech_stack that
\* has no such entry, whatever its description and industry are.
C11_AiTechStrictlyHigher ==
  (Returned /\ AiEntries(given) # {}) =>
    \A t \in NonAiTechStacks :
      \A other \in {calculate_score(WithTech(given, t))} :
        /\ other.kind = "returned"
        /\ result.breakdown["ai_adoption"] > other.breakdown["ai_adoption"]

\* a record at the clamp (100) whose twin without AI tech is at 90
C11_Witness ==
  /\ Returned
  /\ AiEntries(given) # {}
  /\ result.breakdown["ai_adoption"] = P(100)
  /\ \E t \in NonAiTechStacks :
       calculate_score(WithTech(given, t)).breakdown["ai_adoption"] = P(90)

\* funding_stage "Series B" and employee_count 200, whatever the funding_amount
SeriesB200(data) ==
  /\ Get(data, "funding_stage") = Str(S_SeriesB)
  /\ Get(data, "employee_count") = Num(P(200))

\* funding_stage "Seed" and employee_count 5, with a funding_amount (or none)
SeedFive(a) ==
  [company_name |-> Str(S_X), funding_stage |-> Str(S_Seed),
   employee_count |-> Num(P(5))] @@ a

\* C12: a record with funding_stage "Series B" and employee_count 200 has a
\* strictly higher company_growth than a record with funding_stage "Seed" and
\* employee_count 5, for every pair of funding_amount values of the two.
C12_SeriesBBeatsSeed ==
  (Returned /\ SeriesB200(given)) =>
    \A a \in FundingAmounts :
      \A other \in {calculate_score(SeedFive(a))} :
        /\ other.kind = "returned"
        /\ result.breakdown["company_growth"] > other.breakdown["company_growth"]

\* the least favourable pair: no funding_amount against one above 100
C12_Witness ==
  /\ Returned
  /\ SeriesB200(given)
  /\ "funding_amount" \notin DOMAIN given
  /\ result.breakdown["company_growth"] = P(100)
  /\ calculate_score(SeedFive([funding_amount |-> Num(P(100) + 1)]))
       .breakdown["company_growth"] = P(75)

\* the message of a tier
TierMessage(tier) ==
  CASE tier = "hot"          -> "Prioritize immediate outreach"
    [] tier = "warm"         -> "Add to nurture campaign"
    [] tier = "cold"         -> "Continue monitoring for timing signals"
    [] tier = "low_priority" -> "Archive and review quarterly"

\* the place of a message in the fixed order; the four tier messages share the last
Rank(message) ==
  CASE message = "Find and verify decision maker contacts"  -> 1
    [] message = "Research company's AI/tech initiatives"   -> 2
    [] message = "Monitor for funding/hiring announcements" -> 3
    [] OTHER -> 4

\* C13: the recommendations hold the decision-maker prompt iff
\* decision_maker_access < 60, the AI prompt iff ai_adoption < 50, the timing
\* prompt iff timing_signals < 50, in this order, followed by exactly one tier
\* message, that of the tier of the same result; so 1 to 4 elements.
C13_RecommendationsInOrder ==
  result.kind = "returned" =>
    LET recs == result.recommendations
        b == result.breakdown
    IN  /\ 1 <= Len(recs) /\ Len(recs) <= 4
        /\ recs[Len(recs)] = TierMessage(result.tier)
        /\ \A i, j \in 1..Len(recs) : i < j => Rank(recs[i]) < Rank(recs[j])
        /\ ("Find and verify decision maker contacts" \in Range(recs))
             <=> (b["decision_maker_access"] < P(60))
        /\ ("Research company's AI/tech initiatives" \in Range(recs))
             <=> (b["ai_adoption"] < P(50))
        /\ ("Monitor for funding/hiring announcements" \in Range(recs))
             <=> (b["timing_signals"] < P(50))

\* a low_priority result: the decision-maker prompt, then the tier's message
C13_Witness ==
  /\ Returned
  /\ result.tier = "low_priority"
  /\ result.breakdown["decision_maker_access"] < P(60)
  /\ result.recommendations =
       << "Find and verify decision maker contacts", "Archive and review quarterly" >>

\* a contact list with at least one contact
HasContacts(data) ==
  /\ "contacts" \in DOMAIN data
  /\ data["contacts"].t = "list"
  /\ Len(data["contacts"].l) > 0

\* the record without its contacts
NoContacts(data) == [k \in DOMAIN data \ {"contacts"} |-> data[k]]

\* the record with one more contact at the end of its list
OneMoreContact(data, c) ==
  [data EXCEPT !["contacts"] = List(Append(data["contacts"].l, c))]

\* C14: decision_maker_access of a record with a non-empty contact list is at
\* least that of the same record without contacts, which is 40; and the record
\* with one more contact appended never has a lower decision_maker_access.
C14_ContactsNeverLower ==
  (Returned /\ HasContacts(given)) =>
    /\ calculate_score(NoContacts(given)).breakdown["decision_maker_access"] = P(40)
    /\ result.breakdown["decision_maker_access"] >= P(40)
    /\ \A c \in ContactKinds :
         \A more \in {calculate_score(OneMoreContact(given, c))} :
           more.kind = "returned" =>
             more.breakdown["decision_maker_access"]
               >= result.breakdown["decision_maker_access"]

\* a list to which one contact adds nothing and another adds points
C14_Witness ==
  /\ Returned
  /\ HasContacts(given)
  /\ \E c \in ContactKinds :
       calculate_score(OneMoreContact(given, c)) = result
  /\ \E c \in ContactKinds :
       \E more \in {calculate_score(OneMoreContact(given, c))} :
         /\ more.kind = "returned"
         /\ more.breakdown["decision_maker_access"]
              > result.breakdown["decision_maker_access"]

\* the text of a field: empty when the field is absent or None
TextOf(data, key) ==
  IF key \in DOMAIN data /\ data[key].t = "str" THEN data[key].s ELSE <<>>

\* T: the number of tech_stack entries that contain an AI keyword
AiTechEntries(data) == Cardinality(AiEntries(data))

\* D: the number of AI keywords that occur in the lower-cased description
AiMentions(data) ==
  Cardinality({ k \in 1..Len(AI_KEYWORDS) :
                  Contains(AI_KEYWORDS[k], Lower(TextOf(data, "description"))) })

\* I: 20 for an industry that contains one of the three names
IndustryBonus(data) ==
  IF \/ Contains(<<"a","i">>, Lower(TextOf(data, "industry")))
     \/ Contains(<<"m","a","c","h","i","n","e"," ","l","e","a","r","n","i","n","g">>,
                 Lower(TextOf(data, "industry")))
     \/ Contains(<<"a","r","t","i","f","i","c","i","a","l"," ","i","n","t","e","l","l","i","g","e","n","c","e">>,
                 Lower(TextOf(data, "industry")))
  THEN P(20) ELSE 0

\* the record of the AI Corp scenario
AiCorp(data) ==
  /\ Get(data, "industry") = Str(S_ArtificialIntelligence)
  /\ Get(data, "tech_stack") = List(<<S_TensorFlow, S_PyTorch>>)
  /\ Get(data, "description") = Str(S_ml_nlp_platform)

\* C17: ai_adoption = min(100, 50 + min(10 T, 30) + min(5 D, 20) + I); a single
\* string given as tech_stack scores as the one-element list holding it; and
\* the AI Corp scenario (two AI tech entries) has ai_adoption >= 90.
C17_AiAdoptionFormula ==
  Returned =>
    /\ result.breakdown["ai_adoption"] =
         Min(P(100),
             P(50) + Min(P(10 * AiTechEntries(given)), P(30))
                   + Min(P(5 * AiMentions(given)), P(20))
                   + IndustryBonus(given))
    /\ Get(given, "tech_stack").t = "str" =>
         result.breakdown["ai_adoption"] =
           calculate_score(WithTech(given,
               [tech_stack |-> List(<<given["tech_stack"].s>>)])).breakdown["ai_adoption"]
    /\ AiCorp(given) => result.breakdown["ai_adoption"] >= P(90)

\* the AI Corp scenario scored: T = 2, D = 2, I = 20
C17_Witness ==
  /\ Returned
  /\ AiCorp(given)
  /\ AiTechEntries(given) = 2
  /\ AiMentions(given) = 2
  /\ IndustryBonus(given) = P(20)
  /\ result.breakdown["ai_adoption"] = P(100)

\* the stage names in declaration order
StageOrder ==
  << <<"s","e","e","d">>,
     <<"s","e","r","i","e","s"," ","a">>,
     <<"s","e","r","i","e","s"," ","b">>,
     <<"s","e","r","i","e","s"," ","c">>,
     <<"s","e","r","i","e","s"," ","d">>,
     <<"s","e","r","i","e","s"," ","e">>,
     <<"i","p","o">>,
     <<"a","c","q","u","i","r","e","d">>,
     <<"b","o","o","t","s","t","r","a","p","p","e","d">> >>

\* the table entries whose name occurs in the lower-cased funding_stage
MatchingStages(data) ==
  { i \in 1..Len(FUNDING_SCORES) :
      Contains(StageOrder[i], Lower(TextOf(data, "funding_stage"))) }

\* S: 50 when no entry matches, else max(50, score of the earliest matching entry)
StageScore(data) ==
  IF MatchingStages(data) = {} THEN P(50)
  ELSE LET earliest == CHOOSE i \in MatchingStages(data) :
                         \A j \in MatchingStages(data) : i <= j
       IN  Max(P(50), P(FUNDING_SCORES[earliest].score))

\* neither funding_amount nor employee_count adds to the stage score
StageOnly(data) ==
  /\ Get(data, "funding_amount") = NoneV
  /\ Get(data, "employee_count") = NoneV

\* C18: the funding-stage table is in the order seed, series a, series b,
\* series c, series d, series e, ipo, acquired, bootstrapped; the stage score
\* is max(50, score of the first entry in that order whose name occurs in the
\* lower-cased funding_stage), also when a later matching entry scores higher:
\* "Seed extension before Series C" is scored as seed (60), not series c (95).
C18_FirstMatchingStage ==
  /\ \A i \in 1..Len(FUNDING_SCORES) : FUNDING_SCORES[i].stage = StageOrder[i]
  /\ Len(FUNDING_SCORES) = Len(StageOrder)
  /\ (Returned /\ StageOnly(given)) =>
       /\ result.breakdown["company_growth"] = StageScore(given)
       /\ Get(given, "funding_stage") = Str(S_Seed_SeriesC) =>
            result.breakdown["company_growth"] = P(60)

\* a funding_stage that matches seed and series c, scored 60
C18_Witness ==
  /\ Returned
  /\ StageOnly(given)
  /\ MatchingStages(given) = {1, 4}
  /\ FUNDING_SCORES[4].score > FUNDING_SCORES[1].score
  /\ result.breakdown["company_growth"] = P(60)

\* funding_amount as a number: 0 when absent or None
AmountOf(data) ==
  IF "funding_amount" \in DOMAIN data /\ data["funding_amount"].t = "num"
  THEN data["funding_amount"].n ELSE 0

\* employee_count as a number: 0 when absent or None
EmployeesOf(data) ==
  IF "employee_count" \in DOMAIN data /\ data["employee_count"].t = "num"
  THEN data["employee_count"].n ELSE 0

\* F: the funding_amount tiers, each with the condition that selects it
AmountTiers(a) ==
  { <<P(15), a > P(100)>>,
    <<P(10), P(50) < a /\ a <= P(100)>>,
    <<P(5), P(10) < a /\ a <= P(50)>>,
    <<0, a <= P(10)>> }

\* E: the employee_count bands, each with the condition that selects it
EmployeeBands(e) ==
  { <<P(15), P(50) <= e /\ e <= P(500)>>,
    <<P(10), (P(20) <= e /\ e <= P(49)) \/ (P(501) <= e /\ e <= P(1000))>>,
    <<P(5), e > P(1000)>>,
    <<0, e < P(20)>> }

\* the bonuses of the tiers (bands) whose condition holds
Selected(tiers) == { t[1] : t \in { u \in tiers : u[2] } }

\* C19: company_growth = min(100, S + F + E), where exactly one funding_amount
\* tier gives F (> 100: 15; > 50 up to 100: 10; > 10 up to 50: 5; up to 10 or
\* absent: 0) and exactly one employee_count band gives E (50..500: 15; 20..49
\* or 501..1000: 10; > 1000: 5; < 20 or absent: 0).
C19_GrowthFormula ==
  Returned =>
    /\ Cardinality({ u \in AmountTiers(AmountOf(given)) : u[2] }) = 1
    /\ Cardinality({ u \in EmployeeBands(EmployeesOf(given)) : u[2] }) = 1
    /\ \A F \in Selected(AmountTiers(AmountOf(given))) :
         \A E \in Selected(EmployeeBands(EmployeesOf(given))) :
           result.breakdown["company_growth"] = Min(P(100), StageScore(given) + F + E)

\* funding_amount exactly 100 (F = 10) and employee_count exactly 20 (E = 10)
\* with no stage: 70
C19_Witness ==
  /\ Returned
  /\ AmountOf(given) = P(100)
  /\ EmployeesOf(given) = P(20)
  /\ MatchingStages(given) = {}
  /\ result.breakdown["company_growth"] = P(70)

\* social_activity_score as a number: 0 when absent or None
SocialOf(data) ==
  IF "social_activity_score" \in DOMAIN data /\ data["social_activity_score"].t = "num"
  THEN data["social_activity_score"].n ELSE 0

\* C: social_activity_score / 10, capped at +10
SocialContribution(data) == Min(SocialOf(data) \div 10, P(10))

\* the engagement formula of the claim, with C as given
EngagementBy(data, C) ==
  Min(P(100),
      P(50) + (IF Truthy(Get(data, "linkedin_url")) THEN P(15) ELSE 0)
            + (IF Truthy(Get(data, "company_domain")) THEN P(10) ELSE 0)
            + (IF Truthy(Get(data, "recent_news")) THEN P(15) ELSE 0)
            + C)

\* C20 (as claimed): engagement_potential = min(100, 50 + 15 [linkedin_url]
\* + 10 [company_domain] + 15 [recent_news] + C) with C = social_activity_score
\* / 10 capped at +10, and C is never below 0 and never above 10.
C20_SocialContributionBounded ==
  Returned =>
    /\ FactorScores(given)["engagement_potential"] =
         EngagementBy(given, SocialContribution(given))
    /\ result.breakdown["engagement_potential"] =
         Round2(EngagementBy(given, SocialContribution(given)))
    /\ 0 <= SocialContribution(given)
    /\ SocialContribution(given) <= P(10)

\* C15: a step of update_contact on an existing contact leaves its
\* email_verified "unverified" when an email is supplied, whatever it was, and
\* leaves email_verified as it was when no email is supplied.
C15_EmailResetsVerification ==
  [][\A contact_id \in DOMAIN db.contacts, args \in ContactUpdates :
       update_contact(contact_id, args.email, args.job_title) =>
         db'.contacts[contact_id].email_verified =
           IF args.email # NoneV THEN "unverified"
           ELSE db.contacts[contact_id].email_verified]_vars

\* update_contact has given a new email to a contact whose email was valid
C15_Witness ==
  /\ served.op = "update_contact"
  /\ served.status = 200
  /\ served.email = Str(S_email_b)
  /\ served.before = "valid"
  /\ db.contacts[served.id].email = Str(S_email_b)
  /\ db.contacts[served.id].email_verified = "unverified"

\* C16: when create_lead or score_lead has succeeded, the lead's lead_score and
\* ai_adoption_score are the total_score and the ai_adoption of calculate_score
\* for the record of the lead's stored columns and its contacts, of which a
\* lead just created has none.
C16_StoredScores ==
  (served.op \in {"create_lead", "score_lead"} /\ served.status \in {200, 201}) =>
    \E lead \in {db.leads[served.id]} :
      \E expected \in {calculate_score(score_lead_data(lead, lead_contacts(served.id)))} :
        /\ expected.kind = "returned"
        /\ lead["lead_score"] = Num(expected.total_score)
        /\ lead["ai_adoption_score"] = Num(expected.breakdown["ai_adoption"])

\* score_lead has succeeded for a lead whose contacts raise its score
C16_Witness ==
  /\ served.op = "score_lead"
  /\ served.status = 200
  /\ Len(lead_contacts(served.id)) > 0
  /\ db.leads[served.id]["lead_score"] #
       Num(calculate_score(score_lead_data(db.leads[served.id], <<>>)).total_score)

\* email points of a contact whose email_confidence is a number (0 when absent)
EmailPoints(c) ==
  LET confidence == IF "email_confidence" \in DOMAIN c THEN c["email_confidence"].n ELSE 0
  IN  IF confidence >= P(90) THEN P(20)
      ELSE IF confidence >= P(70) THEN P(15)
      ELSE IF confidence >= P(50) THEN P(10)
      ELSE 0

\* title points: 20 for a senior word, otherwise 10 for a mid-level word
TitlePoints(c) ==
  LET title == Lower(TextOf(c, "job_title"))
      senior == \E w \in { <<"c","t","o">>, <<"c","e","o">>, <<"c","o","o">>, <<"v","p">>,
                           <<"d","i","r","e","c","t","o","r">>, <<"h","e","a","d">> } :
                  Contains(w, title)
      mid == \E w \in { <<"m","a","n","a","g","e","r">>, <<"l","e","a","d">>,
                        <<"s","e","n","i","o","r">> } :
               Contains(w, title)
  IN  IF senior THEN P(20) ELSE IF mid THEN P(10) ELSE 0

LinkedinPoints(c) ==
  IF "linkedin_url" \in DOMAIN c /\ Truthy(c["linkedin_url"]) THEN P(5) ELSE 0

\* the sum of the points of the contacts at the positions S of the list
RECURSIVE PointsOf(_, _)
PointsOf(S, contacts) ==
  IF S = {} THEN 0
  ELSE LET i == CHOOSE x \in S : TRUE
       IN  EmailPoints(contacts[i]) + TitlePoints(contacts[i])
           + LinkedinPoints(contacts[i]) + PointsOf(S \ {i}, contacts)

\* C21: for a non-empty contact list decision_maker_access is
\* min(100, 40 + the sum over all contacts of email, title and linkedin points).
C21_DecisionMakerFormula ==
  (Returned /\ HasContacts(given)) =>
    result.breakdown["decision_maker_access"] =
      Min(P(100),
          P(40) + PointsOf(1..Len(given["contacts"].l), given["contacts"].l))

\* two contacts that both count, below the clamp: a title with a senior and a
\* mid-level word at confidence 90 (20 + 20), and confidence 89.999 (15): 95
C21_Witness ==
  /\ Returned
  /\ HasContacts(given)
  /\ Len(given["contacts"].l) = 2
  /\ TitlePoints(given["contacts"].l[1]) = P(20)
  /\ EmailPoints(given["contacts"].l[1]) = P(20)
  /\ EmailPoints(given["contacts"].l[2]) = P(15)
  /\ result.breakdown["decision_maker_access"] = P(95)

\* the lower-cased location of a record ("" when absent or None)
LocationOf(data) == Lower(TextOf(data, "location"))

InTargetCountry(data) ==
  \E i \in DOMAIN TARGET_LOCATIONS : Contains(TARGET_LOCATIONS[i], LocationOf(data))

InTechHub(data) ==
  \E i \in DOMAIN tech_hubs : Contains(tech_hubs[i], LocationOf(data))

\* C22: geographic_fit is 90 when the location contains a target-country entry
\* and 50 otherwise, plus 10 once when it contains a tech-hub entry: the only
\* values are 50, 60, 90 and 100, and a hub outside the target countries is 60.
C22_GeographicValues ==
  Returned =>
    LET geo == result.breakdown["geographic_fit"]
    IN  /\ geo \in { P(50), P(60), P(90), P(100) }
        /\ InTargetCountry(given) <=> geo \in { P(90), P(100) }
        /\ InTechHub(given) <=> geo \in { P(60), P(100) }
        /\ (InTechHub(given) /\ ~InTargetCountry(given)) => geo = P(60)

\* a location that names two hubs and no target country scores 60
C22_Witness ==
  /\ Returned
  /\ Cardinality({ i \in DOMAIN tech_hubs : Contains(tech_hubs[i], LocationOf(given)) }) = 2
  /\ ~InTargetCountry(given)
  /\ result.breakdown["geographic_fit"] = P(60)

\* C23: ai_adoption and timing_signals are never below 50, so a result never
\* holds the ai-adoption prompt or the funding/hiring prompt.
C23_AiAndTimingAtLeastBase ==
  Returned =>
    /\ result.breakdown["ai_adoption"] >= P(50)
    /\ result.breakdown["timing_signals"] >= P(50)
    /\ \A i \in DOMAIN result.recommendations :
         result.recommendations[i] \notin
           { "Research company's AI/tech initiatives",
             "Monitor for funding/hiring announcements" }

\* every timing flag present and false, both scores at their base of 50, and
\* the recommendations hold other prompts only
C23_Witness ==
  /\ Returned
  /\ \A k \in { "recent_funding", "hiring_ai_roles", "recent_press", "data_fresh" } :
       k \in DOMAIN given /\ given[k] = Bool(FALSE)
  /\ result.breakdown["ai_adoption"] = P(50)
  /\ result.breakdown["timing_signals"] = P(50)
  /\ Len(result.recommendations) = 2

\* the numbers a record holds: funding_amount, employee_count,
\* social_activity_score and the email_confidence of its contacts
NumbersOf(data) ==
  { data[k].n : k \in { x \in DOMAIN data \cap { "funding_amount", "employee_count",
                                                   "social_activity_score" } :
                          data[x].t = "num" } }
  \cup (IF HasContacts(data)
        THEN { data["contacts"].l[i]["email_confidence"].n :
                 i \in { j \in DOMAIN data["contacts"].l :
                           /\ "email_confidence" \in DOMAIN data["contacts"].l[j]
                           /\ data["contacts"].l[j]["email_confidence"].t = "num" } }
        ELSE {})

\* C24: a record whose numbers are all non-negative has total_score >= 48.5,
\* is never low_priority and never gets 'Archive and review quarterly'; a
\* low_priority result comes only from a negative social_activity_score.
C24_NonNegativeAtLeastBase ==
  Returned =>
    /\ (\A n \in NumbersOf(given) : n >= 0) =>
         /\ result.total_score >= 48500
         /\ result.tier # "low_priority"
         /\ \A i \in DOMAIN result.recommendations :
              result.recommendations[i] # "Archive and review quarterly"
    /\ result.tier = "low_priority" => SocialOf(given) < 0

\* a record that holds numbers, all zero or above, and scores exactly 48.5
C24_Witness ==
  /\ Returned
  /\ "social_activity_score" \in DOMAIN given
  /\ NumbersOf(given) # {}
  /\ \A n \in NumbersOf(given) : n >= 0
  /\ result.total_score = 48500
  /\ result.tier = "cold"

\* C25: a valid or invalid email_verified refers to the contact's current
\* email: a step that replaces the email of a contact (update_contact with
\* an email, find_contact_email storing the email found) leaves its
\* email_verified "unverified".
C25_VerifiedRefersToCurrentEmail ==
  [][\A id \in DOMAIN db.contacts \cap DOMAIN db'.contacts :
       db'.contacts[id].email # db.contacts[id].email =>
         db'.contacts[id].email_verified = "unverified"]_vars

\* C26: no two contacts of the same lead hold the same non-null email.
C26_EmailsUniquePerLead ==
  \A i, j \in DOMAIN db.contacts :
    (/\ i # j
     /\ db.contacts[i].lead_id = db.contacts[j].lead_id
     /\ db.contacts[i].email # NoneV)
    => db.contacts[i].email # db.contacts[j].email

\* the stored leads that hold the company_domain of a body posted
HeldBy(lead_in) ==
  { i \in DOMAIN db.leads : db.leads[i]["company_domain"] = lead_in["company_domain"] }

\* C27: no two stored leads share a non-null company_domain, and a
\* create_lead whose company_domain a stored lead holds is answered 400 and
\* leaves the stored leads as they were.
C27_DomainsUnique ==
  /\ [](\A i, j \in DOMAIN db.leads :
          (i # j /\ db.leads[i]["company_domain"] # NoneV)
          => db.leads[i]["company_domain"] # db.leads[j]["company_domain"])
  /\ [][\A lead_in \in DomainLeadIns :
          (/\ lead_in["company_domain"] # NoneV
           /\ HeldBy(lead_in) # {}
           /\ create_lead(lead_in))
          => (served'.status = 400 /\ db'.leads = db.leads)]_vars

\* the contacts of a list that hold no email: the key missing, None or ""
WithoutEmail(contacts) ==
  { i \in DOMAIN contacts : ~Truthy(Get(contacts[i], "email")) }

\* the positions that hold the first contact of an email, compared in lower
\* case, and the positions of the contacts without email
KeptPositions(contacts) ==
  WithoutEmail(contacts)
  \cup { i \in DOMAIN contacts \ WithoutEmail(contacts) :
           \A j \in 1..(i - 1) :
             j \in WithoutEmail(contacts)
             \/ Lower(contacts[j]["email"].s) # Lower(contacts[i]["email"].s) }

\* the contacts at the positions kept, in their order
RECURSIVE KeptOf(_, _)
KeptOf(contacts, i) ==
  IF i > Len(contacts) THEN <<>>
  ELSE (IF i \in KeptPositions(contacts) THEN <<contacts[i]>> ELSE <<>>)
       \o KeptOf(contacts, i + 1)

\* C29: _deduplicate_contacts never raises and returns, in the original
\* order, the first contact of each email compared without case together
\* with every contact that has no email (missing, None or empty).
C29_DeduplicateKeepsFirst ==
  last = "_deduplicate_contacts" =>
    /\ result.kind = "returned"
    /\ result.v = KeptOf(given.contacts, 1)

\* C28: the score that EnrichmentService.enrich_lead returns is the score of
\* the contacts it returns: a person that both sources report with one email
\* is once in contacts and counts once in decision_maker_access.
C28_ScoreOfReturnedContacts ==
  (last = "enrich_lead" /\ result.kind = "returned") =>
    /\ \A i, j \in DOMAIN result.contacts :
         (i # j /\ Truthy(result.contacts[i].email))
         => Lower(result.contacts[i].email.s) # Lower(result.contacts[j].email.s)
    /\ result.score =
         calculate_score([company_domain |-> Str(S_url),
                          contacts |-> List(result.contacts)]
                         @@ result.company_data)

\* C30: a step of the enrich_lead endpoint leaves every one of industry,
\* employee_count, location, description, funding_stage that holds a
\* non-empty value as it is, never changes company_name, company_domain,
\* funding_amount, linkedin_url or status, and changes nothing when it answers
\* 404 or 400; only tech_stack, lead_score and ai_adoption_score are overwritten.
C30_EnrichFillsEmptyFieldsOnly ==
  [][served'.op = "enrich_lead" =>
       /\ served'.status \in { 404, 400 } => db' = db
       /\ DOMAIN db'.leads = DOMAIN db.leads
       /\ \A id \in DOMAIN db.leads :
            /\ DOMAIN db'.leads[id] = DOMAIN db.leads[id]
            /\ \A c \in { "industry", "employee_count", "location", "description",
                          "funding_stage" } :
                 Truthy(db.leads[id][c]) => db'.leads[id][c] = db.leads[id][c]
            /\ \A c \in { "company_name", "company_domain", "funding_amount",
                          "linkedin_url", "status" } :
                 db'.leads[id][c] = db.leads[id][c]
            /\ \A c \in DOMAIN db.leads[id] :
                 db'.leads[id][c] # db.leads[id][c] =>
                   c \in { "industry", "employee_count", "location", "description",
                           "funding_stage", "tech_stack", "lead_score",
                           "ai_adoption_score" }]_vars

\* a lead that held an industry and a location keeps them through an
\* enrichment that reports others, and takes the tech_stack reported
C30_Witness ==
  /\ served.op = "enrich_lead"
  /\ served.status = 200
  /\ served.id \in DOMAIN db.leads
  /\ db.leads[served.id]["industry"] = Str(S_Retail)
  /\ db.leads[served.id]["location"] = Str(S_Berlin)
  /\ db.leads[served.id]["tech_stack"] = List(<<S_PyTorch>>)

====
